---- MODULE Spec2Model ----
(***************************************************************************)
(* State-machine model of packer-plugin-amazon:                            *)
(*   - the ebsvolume Builder.Run step pipeline (runner, state bag,         *)
(*     artifact assembly),                                                 *)
(*   - the amazon-import PostProcessor.PostProcess flow (upload, retried   *)
(*     ImportImage, polling, rename, tagging, attribute modification,      *)
(*     source cleanup).                                                    *)
(***************************************************************************)
EXTENDS Integers, Sequences, FiniteSets, TLC

VARIABLES
    \* ---- ebsvolume Builder.Run ----
    bpc,          \* position of Builder.Run
    stepIdx,      \* index in steps of the step being run / cleaned up
    ran,          \* names of the steps whose Run was invoked, in order
    cleaned,      \* names of the steps whose Cleanup was invoked, in order
    executing,    \* the Run/Cleanup invocations in progress
    lastAction,   \* the StepAction returned by the last Run
    haltedAt,     \* index of the step whose Run returned Halt (0: none)
    stoppedBy,    \* why the forward pass stopped: none | halt | cancel
    bag,          \* the multistep state bag
    runCtx,       \* TRUE once the context given to Builder.Run is cancelled
    readKeys,     \* state-bag keys Builder.Run has read after runner.Run
    bresult,      \* what Builder.Run returned
    runConfig,    \* b.config, as far as Builder.Run reads it to build the instance step
    instanceStep, \* the instance step Builder.Run built
    \* ---- import PostProcessor.PostProcess ----
    cfg,          \* the post-processor configuration
    ppc,          \* position of PostProcess
    ppCtx,        \* TRUE once the context given to PostProcess is cancelled
    phases,       \* phases started so far, in order
    calls,        \* the remote APIs called so far
    tries,        \* ImportImage attempts made by the retry engine
    lastErr,      \* error of the last ImportImage attempt
    lost,         \* attempts that took effect remotely but reported an error
    tasks,        \* import tasks started remotely
    taskId,       \* task id held in import_start
    fails,        \* ImportImage attempts that returned an error
    okPhases,     \* phases that ended successfully
    polls,        \* poll attempts of the current waiter
    latePolls,    \* poll attempts begun after the PostProcess context was cancelled
    cancelIn,     \* position of PostProcess when its context was cancelled
    createdami,   \* the AMI id PostProcess works on
    applied,      \* attribute-modification entries applied
    presult,      \* what PostProcess returned
    remote,       \* what the remote side reported about the import task
    destroyed,    \* the AMI ids handed to DestroyAMIs
    modCalls,     \* ModifyImageAttribute calls made
    targets,      \* the AMI id each call about an AMI was made with
    \* ---- AWSPollingConfig ----
    w,            \* the AWSPollingConfig (MaxAttempts, DelaySeconds)
    environ,      \* AWS_POLL_DELAY_SECONDS, AWS_TIMEOUT_SECONDS, AWS_MAX_ATTEMPTS
    given,        \* the polling inputs as they were before any call
    logged,       \* the messages LogEnvOverrideWarnings has written to the log
    logCalls,     \* per call of LogEnvOverrideWarnings, how many messages it wrote
    waiterOpts,   \* the waiter parameters resolved so far, one per wait
    \* ---- AMIConfig.Prepare ----
    amiConfig,    \* the AMIConfig
    accessRegion, \* accessConfig.RawRegion (Nil: no access config)
    amiGiven,     \* the AMIConfig as it was before Prepare
    amiErrs,      \* the errors Prepare returned
    amiPc,        \* position of Prepare
    amiLog,       \* the regions prepareRegions wrote a log line about
    \* ---- import PostProcessor.Configure ----
    impConfig,    \* p.config
    impGiven,     \* the configuration as given to Configure
    impResult,    \* what Configure returned
    impPc,        \* position of Configure
    \* ---- RootBlockDevice.Prepare ----
    rootDevice,   \* the RootBlockDevice
    rootGiven,    \* the RootBlockDevice as it was before Prepare
    rootErrs,     \* the errors Prepare returned
    rootPc,       \* position of Prepare
    \* ---- ebsvolume Builder.Prepare ----
    bldConfig,    \* b.config
    bldGiven,     \* the configuration as given to Prepare
    bldResult,    \* what Prepare returned
    bldPc,        \* position of Prepare
    \* ---- chroot StepManualMountCommand ----
    mCfg,         \* the step's Command, the chroot config and the environment
    mpc,          \* position of the runner
    mIdx,         \* index in chrootSteps of the step to run / to clean up
    mBag,         \* the multistep state bag
    mGen,         \* the generated data
    mUi,          \* what was written to the ui, in order
    mountPath,    \* s.mountPath
    mRan,         \* the steps whose Run was invoked, in order
    mCleaned,     \* the steps whose Cleanup was invoked, in order
    mAction,      \* what Run of StepManualMountCommand returned
    mPut          \* the state-bag keys that Run stored

runVars == <<bpc, stepIdx, ran, cleaned, executing, lastAction, haltedAt,
             stoppedBy, bag, runCtx, readKeys, bresult, runConfig, instanceStep>>
ppVars == <<cfg, ppc, ppCtx, phases, calls, tries, lastErr, lost, tasks, taskId,
            fails, okPhases, polls, latePolls, cancelIn, createdami, applied, presult,
            remote, destroyed, modCalls, targets>>
pollVars == <<w, environ, given, logged, logCalls, waiterOpts>>
amiVars == <<amiConfig, accessRegion, amiGiven, amiErrs, amiPc, amiLog>>
impVars == <<impConfig, impGiven, impResult, impPc>>
rootVars == <<rootDevice, rootGiven, rootErrs, rootPc>>
bldVars == <<bldConfig, bldGiven, bldResult, bldPc>>
mntVars == <<mCfg, mpc, mIdx, mBag, mGen, mUi, mountPath, mRan, mCleaned, mAction, mPut>>
prepVars == <<impVars, rootVars, bldVars, mntVars>>
confVars == <<pollVars, amiVars, prepVars>>
notPollVars == <<runVars, ppVars, amiVars, prepVars>>
notAmiVars == <<runVars, ppVars, pollVars, prepVars>>
vars == <<runVars, ppVars, confVars>>

Nil == "nil"

Reverse(s) == [i \in 1..Len(s) |-> s[Len(s) + 1 - i]]

Range(s) == {s[i] : i \in 1..Len(s)}

----------------------------------------------------------------------------
(* The multistep state bag *)

Put(b, k, v) == [x \in (DOMAIN b) \cup {k} |-> IF x = k THEN v ELSE b[x]]

GetOk(b, k) == k \in DOMAIN b

Get(b, k) == IF k \in DOMAIN b THEN b[k] ELSE Nil

\* Builder.Run: state := new(BasicStateBag); state.Put(...) x 7
InitialBag ==
    [k \in {"config", "access_config", "ec2", "iam", "hook", "ui", "region"} |-> "set"]

----------------------------------------------------------------------------
(* ebsvolume Builder.Run *)

\* a step list that names one step twice
stepsDuplicated ==
    << "StepSourceAMIInfo", "StepNetworkInfo", "StepKeyPair", "StepSecurityGroup",
       "StepIamInstanceProfile", "instanceStep", "instanceStep", "stepTagEBSVolumes",
       "StepGetPassword", "StepCreateSSMTunnel", "StepConnect",
       "StepSetGeneratedData", "StepProvision", "StepCleanupTempKeys",
       "StepStopEBSBackedInstance", "StepModifyEBSBackedInstance",
       "stepSnapshotEBSVolumes" >>

\* steps := []multistep.Step{...}
steps ==
    << "StepSourceAMIInfo", "StepNetworkInfo", "StepKeyPair", "StepSecurityGroup",
       "StepIamInstanceProfile", "instanceStep", "stepTagEBSVolumes",
       "StepGetPassword", "StepCreateSSMTunnel", "StepConnect",
       "StepSetGeneratedData", "StepProvision", "StepCleanupTempKeys",
       "StepStopEBSBackedInstance", "StepModifyEBSBackedInstance",
       "stepSnapshotEBSVolumes" >>

\* the state-bag key a step publishes when its Run continues
Publishes(name) ==
    CASE name = "stepTagEBSVolumes" -> "ebsvolumes"
      [] name = "stepSnapshotEBSVolumes" -> "ebssnapshots"
      [] name = "StepSetGeneratedData" -> "generated_data"
      [] OTHER -> Nil

\* a step's fatal error path: state.Put("error", err); return ActionHalt
StepHalt(b, name) == Put(b, "error", name)

\* a step's success path: publish, return ActionContinue
StepContinue(b, name) ==
    IF Publishes(name) = Nil THEN b ELSE Put(b, Publishes(name), name)

\* the runner starts the next step while another invocation is in progress
RunnerIdleOverlapping == Cardinality(executing) <= 1

\* the runner is between invocations
RunnerIdle == executing = {}

\* the runner unwinds in forward order
CleanupOrderForward(r) == r

\* the order in which the runner invokes Cleanup on the steps that ran
CleanupOrder(r) == Reverse(r)

\* the runner's decision after a Run returned: stop, or advance
StopsAdvancing(action, cancelled) == action = "halt" \/ cancelled

\* the nil Artifact of Builder.Run
NoVolumes == [present |-> FALSE, Volumes |-> Nil, Snapshots |-> Nil]

\* Builder.Run reports a fresh error instead of the stored one
BuilderRunResultFreshError(b) ==
    IF GetOk(b, "error")
    THEN [kind |-> "error", artifact |-> NoVolumes, err |-> "build failed",
          read |-> {"error"}]
    ELSE [kind |-> "artifact",
          artifact |-> [present |-> TRUE, Volumes |-> Get(b, "ebsvolumes"),
                        Snapshots |-> Get(b, "ebssnapshots")],
          err |-> Nil, read |-> {"error", "ebsvolumes", "ebssnapshots", "generated_data"}]

\* Builder.Run after runner.Run: the error check and the artifact assembly.
\* state.Get(k).(T) panics when k is absent (a nil interface value).
BuilderRunResult(b) ==
    IF GetOk(b, "error")
    THEN [kind |-> "error", artifact |-> NoVolumes, err |-> b["error"],
          read |-> {"error"}]
    ELSE IF ~GetOk(b, "ebsvolumes")
    THEN [kind |-> "panic", artifact |-> NoVolumes, err |-> Nil,
          read |-> {"error", "ebsvolumes"}]
    ELSE IF ~GetOk(b, "ebssnapshots")
    THEN [kind |-> "panic", artifact |-> NoVolumes, err |-> Nil,
          read |-> {"error", "ebsvolumes", "ebssnapshots"}]
    ELSE [kind |-> "artifact",
          artifact |-> [present |-> TRUE, Volumes |-> b["ebsvolumes"],
                        Snapshots |-> b["ebssnapshots"]],
          err |-> Nil,
          read |-> {"error", "ebsvolumes", "ebssnapshots", "generated_data"}]

NoResult == [kind |-> "none", artifact |-> NoVolumes, err |-> Nil, read |-> {}]

\* no instance step is built yet
NoStep == [kind |-> "none"]

\* the tenancy values of a configuration
Tenancies == {"", "default", "dedicated", "host"}

\* b.config, as far as the instance step depends on it; IsSpot: what IsSpotInstance()
\* returns
RunConfigs == [IsSpot : BOOLEAN, PlacementTenancy : Tenancies, Tenancy : Tenancies]

\* the tenancy is taken from the last non-empty candidate
FirstNonEmptyFromTheEnd(tenancies) ==
    LET set == {i \in 1..Len(tenancies) : tenancies[i] # ""}
    IN  IF set = {} THEN ""
        ELSE tenancies[CHOOSE i \in set : \A j \in set : j <= i]

\* for i := range tenancies { if tenancies[i] != "" { tenancy = tenancies[i]; break } }
FirstNonEmpty(tenancies) ==
    LET set == {i \in 1..Len(tenancies) : tenancies[i] # ""}
    IN  IF set = {} THEN ""
        ELSE tenancies[CHOOSE i \in set : \A j \in set : i <= j]

\* instanceStep, as Builder.Run builds it from the configuration c
InstanceStep(c) ==
    IF c.IsSpot
    THEN [kind |-> "StepRunSpotInstance"]
    ELSE [kind |-> "StepRunSourceInstance",
          Tenancy |-> FirstNonEmpty(<<c.PlacementTenancy, c.Tenancy>>)]

RunStart(c) ==
    /\ runConfig = c
    /\ instanceStep = NoStep
    /\ bpc = "start"
    /\ stepIdx = 0
    /\ ran = <<>>
    /\ cleaned = <<>>
    /\ executing = {}
    /\ lastAction = "none"
    /\ haltedAt = 0
    /\ stoppedBy = "none"
    /\ bag = << >>
    /\ runCtx = FALSE
    /\ readKeys = {}
    /\ bresult = NoResult

\* Builder.Run is about to be called for an on-demand instance with no tenancy
InitRun == RunStart([IsSpot |-> FALSE, PlacementTenancy |-> "", Tenancy |-> ""])

\* session, err := b.config.Session(); if err != nil { return nil, err }
RunSessionFails ==
    /\ UNCHANGED <<ppVars, confVars>>
    /\ UNCHANGED <<runConfig, instanceStep>>
    /\ bpc = "start"
    /\ bpc' = "done"
    /\ bresult' = [kind |-> "error", artifact |-> NoVolumes, err |-> "session",
                   read |-> {}]
    /\ UNCHANGED <<stepIdx, ran, cleaned, executing, lastAction, haltedAt, stoppedBy,
                   bag, runCtx, readKeys>>

\* the state bag is set up, the steps are built, runner.Run is entered
RunSetup ==
    /\ UNCHANGED <<ppVars, confVars>>
    /\ bpc = "start"
    /\ bag' = InitialBag
    /\ instanceStep' = InstanceStep(runConfig)
    /\ UNCHANGED runConfig
    /\ bpc' = "forward"
    /\ stepIdx' = 1
    /\ UNCHANGED <<ran, cleaned, executing, lastAction, haltedAt, stoppedBy, runCtx,
                   readKeys, bresult>>

\* the context given to Builder.Run is cancelled by the caller
RunCancel ==
    /\ UNCHANGED <<ppVars, confVars>>
    /\ UNCHANGED <<runConfig, instanceStep>>
    /\ bpc \in {"forward", "unwind"}
    /\ ~runCtx
    /\ runCtx' = TRUE
    /\ UNCHANGED <<bpc, stepIdx, ran, cleaned, executing, lastAction, haltedAt,
                   stoppedBy, bag, readKeys, bresult>>

\* runner: invoke Run of the next step, and record that it ran
StepRunBegin ==
    /\ UNCHANGED <<ppVars, confVars>>
    /\ UNCHANGED <<runConfig, instanceStep>>
    /\ bpc = "forward"
    /\ RunnerIdle
    /\ stepIdx <= Len(steps)
    /\ executing' = executing \cup {<<"Run", stepIdx>>}
    /\ ran' = Append(ran, steps[stepIdx])
    /\ stepIdx' = stepIdx + 1
    /\ UNCHANGED <<bpc, cleaned, lastAction, haltedAt, stoppedBy, bag, runCtx,
                   readKeys, bresult>>

\* a step's Run returns; the runner stops advancing on Halt or cancellation,
\* and after the last step
StepRunEnd ==
    /\ UNCHANGED <<ppVars, confVars>>
    /\ UNCHANGED <<runConfig, instanceStep>>
    /\ bpc = "forward"
    /\ \E inv \in executing, action \in {"continue", "halt"} :
        /\ inv[1] = "Run"
        /\ lastAction' = action
        /\ bag' = IF action = "halt" THEN StepHalt(bag, steps[inv[2]])
                  ELSE StepContinue(bag, steps[inv[2]])
        /\ haltedAt' = IF action = "halt" THEN inv[2] ELSE haltedAt
        /\ executing' = executing \ {inv}
        /\ IF StopsAdvancing(action, runCtx)
           THEN /\ stoppedBy' = (IF action = "halt" THEN "halt" ELSE "cancel")
                /\ bpc' = "unwind"
                /\ stepIdx' = Len(ran)
           ELSE /\ stoppedBy' = stoppedBy
                /\ bpc' = IF inv[2] = Len(steps) THEN "unwind" ELSE "forward"
                /\ stepIdx' = IF inv[2] = Len(steps) THEN Len(ran) ELSE stepIdx
    /\ UNCHANGED <<ran, cleaned, runCtx, readKeys, bresult>>

\* runner: invoke Cleanup of the next step of the unwinding
CleanupBegin ==
    /\ UNCHANGED <<ppVars, confVars>>
    /\ UNCHANGED <<runConfig, instanceStep>>
    /\ bpc = "unwind"
    /\ RunnerIdle
    /\ stepIdx >= 1
    /\ executing' = executing \cup {<<"Cleanup", stepIdx>>}
    /\ cleaned' = Append(cleaned, CleanupOrder(ran)[Len(ran) + 1 - stepIdx])
    /\ stepIdx' = stepIdx - 1
    /\ UNCHANGED <<bpc, ran, lastAction, haltedAt, stoppedBy, bag, runCtx,
                   readKeys, bresult>>

\* a step's Cleanup returns; after the last one runner.Run returns
CleanupEnd ==
    /\ UNCHANGED <<ppVars, confVars>>
    /\ UNCHANGED <<runConfig, instanceStep>>
    /\ bpc = "unwind"
    /\ \E inv \in executing :
        /\ inv[1] = "Cleanup"
        /\ executing' = executing \ {inv}
        /\ bpc' = IF stepIdx = 0 /\ executing' = {} THEN "runnerDone" ELSE "unwind"
    /\ UNCHANGED <<stepIdx, ran, cleaned, lastAction, haltedAt, stoppedBy, bag,
                   runCtx, readKeys, bresult>>

\* runner.Run has returned: Builder.Run checks "error" and assembles the artifact
RunFinish ==
    /\ UNCHANGED <<ppVars, confVars>>
    /\ UNCHANGED <<runConfig, instanceStep>>
    /\ bpc = "runnerDone"
    /\ bresult' = BuilderRunResult(bag)
    /\ readKeys' = BuilderRunResult(bag).read
    /\ bpc' = "done"
    /\ UNCHANGED <<stepIdx, ran, cleaned, executing, lastAction, haltedAt, stoppedBy,
                   bag, runCtx>>

NextRun ==
    \/ RunSessionFails
    \/ RunSetup
    \/ RunCancel
    \/ StepRunBegin
    \/ StepRunEnd
    \/ CleanupBegin
    \/ CleanupEnd
    \/ RunFinish

----------------------------------------------------------------------------
(* import PostProcessor.PostProcess *)

\* a retry configuration one try short
TriesOneShort == 11 - 1

\* retry.Config{Tries: 11, ...}
Tries == 11

\* the waiter's attempt budget (AWSPollingConfig.MaxAttempts as resolved)
MaxPollAttempts == 3

\* how many ImportImage attempts may take effect remotely yet report an error
MaxLostReplies == 1

\* how many of the attribute fields a configuration sets
MaxAttrs == 2

\* errors a remote call reports
RemoteErrors == {"RequestLimitExceeded", "InternalError"}

CtxCanceled == "context canceled"

\* the users entry is stored under the key of the groups entry
OptionsUsersUnderGroups(c) ==
    (IF c.Description # "" THEN {"description"} ELSE {})
    \cup (IF Len(c.Groups) > 0 THEN {"groups"} ELSE {})
    \cup (IF Len(c.Users) > 0 THEN {"groups"} ELSE {})
    \cup (IF Len(c.OrgArns) > 0 THEN {"ami org arns"} ELSE {})
    \cup (IF Len(c.OuArns) > 0 THEN {"ami ou arns"} ELSE {})
    \cup (IF c.AMIIMDSSupport # "" THEN {"ami imds support"} ELSE {})

\* options := make(map[string]*ec2.ModifyImageAttributeInput); if ... { options[..] = .. }
Options(c) ==
    (IF c.Description # "" THEN {"description"} ELSE {})
    \cup (IF Len(c.Groups) > 0 THEN {"groups"} ELSE {})
    \cup (IF Len(c.Users) > 0 THEN {"users"} ELSE {})
    \cup (IF Len(c.OrgArns) > 0 THEN {"ami org arns"} ELSE {})
    \cup (IF Len(c.OuArns) > 0 THEN {"ami ou arns"} ELSE {})
    \cup (IF c.AMIIMDSSupport # "" THEN {"ami imds support"} ELSE {})

\* Config, as far as PostProcess reads it
Configs ==
    {c \in [Name : {"", "renamed"}, Tags : {<<>>, <<"k">>}, SkipClean : BOOLEAN,
            Description : {"", "d"}, Groups : {<<>>, <<"all">>},
            Users : {<<>>, <<"111111111111">>}, OrgArns : {<<>>, <<"org">>},
            OuArns : {<<>>, <<"ou">>}, AMIIMDSSupport : {"", "v2.0"}] :
        Cardinality(Options(c)) <= MaxAttrs}

\* the source object is deleted whatever skip_clean says
SourceCleanupAlways(c) == TRUE

\* if !p.config.SkipClean { ... DeleteObject ... }
SourceCleanupWanted(c) == ~c.SkipClean

\* ec2.ImportImageInput as built by PostProcess carries no ClientToken
ImportClientToken == FALSE

\* the remote side starts a task for a request, unless its client token is known
ImportStartsTask(token, started) == ~(token /\ started > 0)

\* the context PostProcess hands to WaitUntilImageImported / WaitUntilAMIAvailable
WaitCtx == "background"

\* a waiter's context is done: aws.BackgroundContext() never is
WaitCtxDone(c, callerCancelled) == c = "caller" /\ callerCancelled

\* the retry engine aborts before an attempt or a sleep when its context is done
RetryCtxDone(callerCancelled) == callerCancelled

\* the retry engine gives up after Tries attempts
RetryExhausted(n) == n >= Tries

NoArtifact == [present |-> FALSE, Amis |-> << >>, BuilderIdValue |-> ""]

NoErr == [msg |-> "", names |-> {}, status |-> "", cause |-> ""]

Err(m, n, c) == [msg |-> m, names |-> n, status |-> "", cause |-> c]

ErrStatus(m, n, st, c) == [msg |-> m, names |-> n, status |-> st, cause |-> c]

\* status messages an import task carries
StatusMessages == {"pending", "ClientError: Unsupported kernel version"}

\* statusMessage := "Error retrieving status message"
StatusPlaceholder == "Error retrieving status message"

\* nothing was reported about the import task yet
NoReport == [waitErr |-> "", describeFailed |-> FALSE, status |-> "", statusMessage |-> ""]

\* return nil, false, false, err
Failed(e) == [artifact |-> NoArtifact, err |-> e]

\* const BuilderId
BuilderId == "packer.post-processor.amazon-import"

\* the artifact names the AMI in a second region too
ArtifactTwoRegions(ami) ==
    [present |-> TRUE, Amis |-> [r \in {"region", "us-east-1"} |-> ami],
     BuilderIdValue |-> BuilderId]

\* artifact = &awscommon.Artifact{Amis: {region: createdami}, BuilderIdValue: BuilderId}
Artifact(ami) ==
    [present |-> TRUE, Amis |-> [r \in {"region"} |-> ami], BuilderIdValue |-> BuilderId]

\* the renamed AMI is handed to DestroyAMIs
IntermediaryAMIAfterSwap(imported, copied) == copied

\* awscommon.DestroyAMIs([]*string{&createdami}, ec2conn), called before
\* createdami = *resp.ImageId
IntermediaryAMI(imported, copied) == imported

\* an API call made with the image id ami, for the entry of the attribute map
Target(api, entry, ami) == [api |-> api, entry |-> entry, ami |-> ami]

\* every modification is made on the imported AMI
ModifyTargetImported(imported, current) == imported

\* input.ImageId = &createdami
ModifyTarget(imported, current) == current

\* where PostProcess goes once the AMI id is final
AfterModify(c) == "cleanup"

AfterTagging(c) == IF Options(c) = {} THEN AfterModify(c) ELSE "modify"

AfterRename(c) == IF Len(c.Tags) > 0 THEN "tag" ELSE AfterTagging(c)

AfterResult(c) == IF c.Name # "" THEN "copy" ELSE AfterRename(c)

InitPP ==
    /\ cfg \in Configs
    /\ ppc = "start"
    /\ ppCtx = FALSE
    /\ phases = <<>>
    /\ calls = {}
    /\ tries = 0
    /\ fails = 0
    /\ lastErr = ""
    /\ lost = 0
    /\ tasks = 0
    /\ taskId = 0
    /\ okPhases = {}
    /\ polls = 0
    /\ latePolls = 0
    /\ cancelIn = ""
    /\ createdami = ""
    /\ applied = {}
    /\ presult = [artifact |-> NoArtifact, err |-> NoErr]
    /\ remote = NoReport
    /\ destroyed = {}
    /\ modCalls = 0
    /\ targets = {}

\* the caller cancels the context given to PostProcess
PPCancel ==
    /\ UNCHANGED <<runVars, confVars>>
    /\ UNCHANGED <<remote, destroyed, modCalls, targets>>
    /\ ppc # "done"
    /\ ~ppCtx
    /\ ppCtx' = TRUE
    /\ cancelIn' = IF ppc = "importing" /\ tries = 1 THEN "first import"
                   ELSE IF ppc \in {"retry", "importing", "poll", "copywait"} THEN ppc
                   ELSE "elsewhere"
    /\ UNCHANGED <<cfg, ppc, phases, calls, tries, lastErr, lost, tasks, taskId, fails,
                   okPhases, polls, latePolls, createdami, applied, presult>>

\* Session(), Render(s3_key_name), the search for the image file, os.Open
PPPrepareFails ==
    /\ UNCHANGED <<runVars, confVars>>
    /\ UNCHANGED <<remote, destroyed, modCalls, targets>>
    /\ ppc = "start"
    /\ \E m \in {"session", "Error rendering s3_key_name template",
                 "No image file found in artifact from builder", "Failed to open"} :
        presult' = Failed(Err(m, {}, ""))
    /\ ppc' = "done"
    /\ UNCHANGED <<cfg, ppCtx, phases, calls, tries, lastErr, lost, tasks, taskId,
                   fails, okPhases, polls, latePolls, cancelIn, createdami, applied>>

\* uploader.Upload(updata)
PPUpload ==
    /\ UNCHANGED <<runVars, confVars>>
    /\ UNCHANGED <<remote, destroyed, modCalls, targets>>
    /\ ppc = "start"
    /\ phases' = Append(phases, "upload")
    /\ calls' = calls \cup {"Upload"}
    /\ \E e \in RemoteErrors \cup {""} :
        IF e # ""
        THEN /\ presult' = Failed(Err("Failed to upload", {}, e))
             /\ ppc' = "done"
             /\ okPhases' = okPhases
        ELSE /\ presult' = presult
             /\ ppc' = "retry"
             /\ okPhases' = okPhases \cup {"upload"}
    /\ UNCHANGED <<cfg, ppCtx, tries, lastErr, lost, tasks, taskId, fails, polls,
                   latePolls, cancelIn, createdami, applied>>

\* retry engine: the context is done, so no attempt and no sleep follow;
\* PostProcess: "Failed to start import ..."
ImportRetryAbort ==
    /\ UNCHANGED <<runVars, confVars>>
    /\ UNCHANGED <<remote, destroyed, modCalls, targets>>
    /\ ppc = "retry"
    /\ RetryCtxDone(ppCtx)
    /\ presult' = Failed(Err("Failed to start import", {"s3"}, CtxCanceled))
    /\ ppc' = "done"
    /\ UNCHANGED <<cfg, ppCtx, phases, calls, tries, lastErr, lost, tasks, taskId,
                   fails, okPhases, polls, latePolls, cancelIn, createdami, applied>>

\* retry engine: invoke the attempt function; it calls ec2conn.ImportImage(params)
\* and ignores the context it is given
ImportAttemptBegin ==
    /\ UNCHANGED <<runVars, confVars>>
    /\ UNCHANGED <<remote, destroyed, modCalls, targets>>
    /\ ppc = "retry"
    /\ ~RetryCtxDone(ppCtx)
    /\ tries' = tries + 1
    /\ phases' = IF tries = 0 THEN Append(phases, "import") ELSE phases
    /\ calls' = calls \cup {"ImportImage"}
    /\ ppc' = "importing"
    /\ UNCHANGED <<cfg, ppCtx, lastErr, lost, tasks, taskId, fails, okPhases, polls,
                   latePolls, cancelIn, createdami, applied, presult>>

\* ImportImage returns: success ends the retry; an error is retried until Tries
\* attempts were made, then the last error is reported
ImportAttemptEnd ==
    /\ UNCHANGED <<runVars, confVars>>
    /\ UNCHANGED <<remote, destroyed, modCalls, targets>>
    /\ ppc = "importing"
    /\ \E e \in RemoteErrors \cup {""}, effect \in BOOLEAN :
        /\ e = "" => effect
        /\ (e # "" /\ effect) => lost < MaxLostReplies
        /\ lost' = IF e # "" /\ effect THEN lost + 1 ELSE lost
        /\ tasks' = IF effect /\ ImportStartsTask(ImportClientToken, tasks)
                    THEN tasks + 1 ELSE tasks
        /\ IF e = ""
           THEN /\ taskId' = tasks'
                /\ lastErr' = ""
                /\ UNCHANGED <<fails, presult>>
                /\ okPhases' = okPhases \cup {"import"}
                /\ ppc' = "started"
           ELSE /\ lastErr' = e
                /\ fails' = fails + 1
                /\ UNCHANGED <<taskId, okPhases>>
                /\ IF RetryExhausted(tries)
                   THEN /\ presult' = Failed(Err("Failed to start import", {"s3"}, e))
                        /\ ppc' = "done"
                   ELSE /\ presult' = presult
                        /\ ppc' = "retry"
    /\ UNCHANGED <<cfg, ppCtx, phases, calls, tries, polls, latePolls, cancelIn,
                   createdami, applied>>

\* retry.Run has returned nil: "Started import ...", "Waiting for task ..."
PPStartPolling ==
    /\ UNCHANGED <<runVars, confVars>>
    /\ UNCHANGED <<remote, destroyed, modCalls, targets>>
    /\ ppc = "started"
    /\ phases' = Append(phases, "poll")
    /\ tries' = 0
    /\ fails' = 0
    /\ ppc' = "poll"
    /\ UNCHANGED <<cfg, ppCtx, calls, lastErr, lost, tasks, taskId, okPhases, polls,
                   latePolls, cancelIn, createdami, applied, presult>>

\* a failed wait is reported like a timeout, without the task's status message
ImportWaitFailedAsTimeout(waitErr, describeFails, statusMessage) ==
    [artifact |-> NoArtifact,
     err |-> [msg |-> "Import task failed with status message", names |-> {"task"},
              status |-> StatusPlaceholder, cause |-> waitErr]]

\* PostProcess after the waiter failed: DescribeImportImageTasks for the status
\* message, then "Import task %s failed with status message: %s, error: %s"
ImportWaitFailed(waitErr, describeFails, statusMessage) ==
    Failed(ErrStatus("Import task failed with status message", {"task"},
                     IF describeFails THEN StatusPlaceholder
                     ELSE statusMessage,
                     waitErr))

\* if *import_result.ImportImageTasks[0].Status != "completed"
ImportCompleted(status) == status = "completed"

\* "Import task %s failed: %s" with the task's own status message
ImportNotCompleted(statusMessage) ==
    Failed(ErrStatus("Import task failed", {"task"}, statusMessage, ""))

\* one poll of a waiter: the resource is pending, in the target state, or in a
\* failure state; the budget of attempts may run out; the waiter's context may be done
WaiterOutcome(ctxDone, seen, attempt) ==
    IF ctxDone THEN CtxCanceled
    ELSE IF seen = "target" THEN "ok"
    ELSE IF seen = "failure" THEN "ResourceNotReady: failed waiter state"
    ELSE IF attempt >= MaxPollAttempts THEN "ResourceNotReady: exceeded wait attempts"
    ELSE "again"

\* p.config.PollingConfig.WaitUntilImageImported(aws.BackgroundContext(), ...)
PollImport ==
    /\ UNCHANGED <<runVars, confVars>>
    /\ UNCHANGED <<destroyed, modCalls, targets>>
    /\ ppc = "poll"
    /\ polls' = IF WaitCtxDone(WaitCtx, ppCtx) THEN polls ELSE polls + 1
    /\ latePolls' = IF ppCtx /\ ~WaitCtxDone(WaitCtx, ppCtx)
                    THEN latePolls + 1 ELSE latePolls
    /\ \E seen \in {"pending", "target", "failure"}, describeFails \in BOOLEAN,
          m \in StatusMessages :
        LET out == WaiterOutcome(WaitCtxDone(WaitCtx, ppCtx), seen, polls')
        IN  /\ out \in {"again", "ok"} => ~describeFails
            /\ IF out = "again"
               THEN UNCHANGED <<ppc, calls, presult, remote>>
               ELSE IF out = "ok"
               THEN /\ ppc' = "describe"
                    /\ UNCHANGED <<calls, presult, remote>>
               ELSE /\ ppc' = "done"
                    /\ calls' = calls \cup {"DescribeImportImageTasks"}
                    /\ remote' = [waitErr |-> out, describeFailed |-> describeFails,
                                  status |-> "",
                                  statusMessage |-> IF describeFails THEN "" ELSE m]
                    /\ presult' = ImportWaitFailed(out, describeFails, m)
            /\ okPhases' = IF out = "ok" THEN okPhases \cup {"poll"} ELSE okPhases
    /\ UNCHANGED <<cfg, ppCtx, phases, tries, lastErr, lost, tasks, taskId, fails,
                   cancelIn, createdami, applied>>

\* import_result, err := ec2conn.DescribeImportImageTasks(...); the status check;
\* createdami := *import_result.ImportImageTasks[0].ImageId
PPDescribeResult ==
    /\ UNCHANGED <<runVars, confVars>>
    /\ UNCHANGED <<destroyed, modCalls, targets>>
    /\ ppc = "describe"
    /\ phases' = Append(phases, "result")
    /\ calls' = calls \cup {"DescribeImportImageTasks"}
    /\ \E e \in RemoteErrors \cup {""}, status \in {"completed", "deleted", "active"},
          m \in StatusMessages :
        /\ remote' = [waitErr |-> "", describeFailed |-> e # "",
                      status |-> IF e # "" THEN "" ELSE status,
                      statusMessage |-> IF e # "" THEN "" ELSE m]
        /\ IF e # ""
           THEN /\ presult' = Failed(Err("Failed to find import task", {"task"}, e))
                /\ ppc' = "done"
                /\ UNCHANGED <<okPhases, createdami>>
           ELSE IF ~ImportCompleted(status)
           THEN /\ presult' = ImportNotCompleted(m)
                /\ ppc' = "done"
                /\ UNCHANGED <<okPhases, createdami>>
           ELSE /\ presult' = presult
                /\ okPhases' = okPhases \cup {"result"}
                /\ createdami' = "ami-imported"
                /\ ppc' = AfterResult(cfg)
    /\ polls' = 0
    /\ latePolls' = 0
    /\ UNCHANGED <<cfg, ppCtx, tries, lastErr, lost, tasks, taskId, fails, cancelIn,
                   applied>>

\* resp, err := ec2conn.CopyImage(copyInput)
PPCopyImage ==
    /\ UNCHANGED <<runVars, confVars>>
    /\ UNCHANGED <<remote, destroyed, modCalls>>
    /\ ppc = "copy"
    /\ phases' = Append(phases, "rename")
    /\ calls' = calls \cup {"CopyImage"}
    /\ targets' = targets \cup {Target("CopyImage", "", createdami)}
    /\ \E e \in RemoteErrors \cup {""} :
        IF e # ""
        THEN /\ presult' = Failed(Err("Error Copying AMI", {"ami"}, e))
             /\ ppc' = "done"
        ELSE /\ presult' = presult
             /\ ppc' = "copywait"
    /\ UNCHANGED <<cfg, ppCtx, tries, lastErr, lost, tasks, taskId, fails, okPhases,
                   polls, latePolls, cancelIn, createdami, applied>>

\* p.config.PollingConfig.WaitUntilAMIAvailable(aws.BackgroundContext(), ...)
PollCopy ==
    /\ UNCHANGED <<runVars, confVars>>
    /\ UNCHANGED <<remote, destroyed, modCalls, targets>>
    /\ ppc = "copywait"
    /\ polls' = IF WaitCtxDone(WaitCtx, ppCtx) THEN polls ELSE polls + 1
    /\ latePolls' = IF ppCtx /\ ~WaitCtxDone(WaitCtx, ppCtx)
                    THEN latePolls + 1 ELSE latePolls
    /\ \E seen \in {"pending", "target", "failure"} :
        LET out == WaiterOutcome(WaitCtxDone(WaitCtx, ppCtx), seen, polls')
        IN  IF out = "again"
            THEN UNCHANGED <<ppc, presult, okPhases>>
            ELSE IF out = "ok"
            THEN /\ ppc' = "destroy"
                 /\ presult' = presult
                 /\ okPhases' = okPhases \cup {"copy"}
            ELSE /\ ppc' = "done"
                 /\ presult' = Failed(Err("Error waiting for AMI", {"ami"}, out))
                 /\ okPhases' = okPhases
    /\ UNCHANGED <<cfg, ppCtx, phases, calls, tries, lastErr, lost, tasks, taskId,
                   fails, cancelIn, createdami, applied>>

\* awscommon.DestroyAMIs([]*string{&createdami}, ec2conn); createdami = *resp.ImageId
PPDestroyIntermediary ==
    /\ UNCHANGED <<runVars, confVars>>
    /\ UNCHANGED <<remote, modCalls, targets>>
    /\ ppc = "destroy"
    /\ calls' = calls \cup {"DestroyAMIs"}
    /\ destroyed' = destroyed \cup {IntermediaryAMI(createdami, "ami-copy")}
    /\ polls' = 0
    /\ latePolls' = 0
    /\ \E e \in RemoteErrors \cup {""} :
        IF e # ""
        THEN /\ presult' = Failed(Err("Error deregistering existing AMI", {}, e))
             /\ ppc' = "done"
             /\ UNCHANGED <<okPhases, createdami>>
        ELSE /\ presult' = presult
             /\ okPhases' = okPhases \cup {"rename"}
             /\ createdami' = "ami-copy"
             /\ ppc' = AfterRename(cfg)
    /\ UNCHANGED <<cfg, ppCtx, phases, tries, lastErr, lost, tasks, taskId, fails,
                   cancelIn, applied>>

\* imageResp, err := ec2conn.DescribeImages(...); len(imageResp.Images) == 0
PPDescribeImages ==
    /\ UNCHANGED <<runVars, confVars>>
    /\ UNCHANGED <<remote, destroyed, modCalls>>
    /\ ppc = "tag"
    /\ phases' = Append(phases, "tag")
    /\ calls' = calls \cup {"DescribeImages"}
    /\ targets' = targets \cup {Target("DescribeImages", "", createdami)}
    /\ \E out \in RemoteErrors \cup {"", "no images"} :
        IF out = ""
        THEN /\ presult' = presult
             /\ ppc' = "createtags"
        ELSE /\ presult' = Failed(Err(IF out = "no images" THEN "AMI has no images"
                                      ELSE "Failed to retrieve details for AMI",
                                      {"ami"}, out))
             /\ ppc' = "done"
    /\ UNCHANGED <<cfg, ppCtx, tries, lastErr, lost, tasks, taskId, fails, okPhases,
                   polls, latePolls, cancelIn, createdami, applied>>

\* ec2conn.CreateTags(...); the error prints resourceIds with %#v, a []*string
PPCreateTags ==
    /\ UNCHANGED <<runVars, confVars>>
    /\ UNCHANGED <<remote, destroyed, modCalls>>
    /\ ppc = "createtags"
    /\ calls' = calls \cup {"CreateTags"}
    /\ targets' = targets \cup {Target("CreateTags", "", createdami)}
    /\ \E e \in RemoteErrors \cup {""} :
        IF e # ""
        THEN /\ presult' = Failed(Err("Failed to add tags to resources", {}, e))
             /\ ppc' = "done"
             /\ okPhases' = okPhases
        ELSE /\ presult' = presult
             /\ okPhases' = okPhases \cup {"tag"}
             /\ ppc' = AfterTagging(cfg)
    /\ UNCHANGED <<cfg, ppCtx, phases, tries, lastErr, lost, tasks, taskId, fails,
                   polls, latePolls, cancelIn, createdami, applied>>

\* for name, input := range options { ... ec2conn.ModifyImageAttribute(input) ... }
PPModify ==
    /\ UNCHANGED <<runVars, confVars>>
    /\ UNCHANGED <<remote, destroyed>>
    /\ ppc = "modify"
    /\ phases' = IF applied = {} /\ "ModifyImageAttribute" \notin calls
                 THEN Append(phases, "modify") ELSE phases
    /\ calls' = calls \cup {"ModifyImageAttribute"}
    /\ modCalls' = modCalls + 1
    /\ \E name \in Options(cfg) \ applied, e \in RemoteErrors \cup {""} :
        /\ targets' = targets \cup {Target("ModifyImageAttribute", name,
                                           ModifyTarget("ami-imported", createdami))}
        /\ IF e # ""
           THEN /\ presult' = Failed(Err("Error modifying AMI attributes", {}, e))
                /\ ppc' = "done"
                /\ UNCHANGED <<applied, okPhases>>
           ELSE /\ presult' = presult
                /\ applied' = applied \cup {name}
                /\ IF applied' = Options(cfg)
                   THEN /\ okPhases' = okPhases \cup {"modify"}
                        /\ ppc' = AfterModify(cfg)
                   ELSE /\ okPhases' = okPhases
                        /\ ppc' = "modify"
    /\ UNCHANGED <<cfg, ppCtx, tries, lastErr, lost, tasks, taskId, fails, polls,
                   latePolls, cancelIn, createdami>>

\* the artifact is built; if !SkipClean, s3conn.DeleteObject(...); return
PPSourceCleanup ==
    /\ UNCHANGED <<runVars, confVars>>
    /\ UNCHANGED <<remote, destroyed, modCalls, targets>>
    /\ ppc = "cleanup"
    /\ ppc' = "done"
    /\ IF SourceCleanupWanted(cfg)
       THEN /\ phases' = Append(phases, "cleanup")
            /\ calls' = calls \cup {"DeleteObject"}
            /\ \E e \in RemoteErrors \cup {""} :
                IF e # ""
                THEN /\ presult' = Failed(Err("Failed to delete", {"s3"}, e))
                     /\ okPhases' = okPhases
                ELSE /\ presult' = [artifact |-> Artifact(createdami), err |-> NoErr]
                     /\ okPhases' = okPhases \cup {"cleanup"}
       ELSE /\ presult' = [artifact |-> Artifact(createdami), err |-> NoErr]
            /\ UNCHANGED <<phases, calls, okPhases>>
    /\ UNCHANGED <<cfg, ppCtx, tries, lastErr, lost, tasks, taskId, fails, polls,
                   latePolls, cancelIn, createdami, applied>>

NextPP ==
    \/ PPCancel
    \/ PPPrepareFails
    \/ PPUpload
    \/ ImportRetryAbort
    \/ ImportAttemptBegin
    \/ ImportAttemptEnd
    \/ PPStartPolling
    \/ PollImport
    \/ PPDescribeResult
    \/ PPCopyImage
    \/ PollCopy
    \/ PPDestroyIntermediary
    \/ PPDescribeImages
    \/ PPCreateTags
    \/ PPModify
    \/ PPSourceCleanup

----------------------------------------------------------------------------
(* AWSPollingConfig: the log of the overrides and the waiter parameters *)

\* how many times LogEnvOverrideWarnings is called
MaxLogCalls == 2

\* how many waits resolve their parameters
MaxResolutions == 2

\* "If none is set, defaults to AWS waiter default which is 40 max_attempts"
DefaultMaxAttempts == 40

\* "If none is set, defaults to AWS waiter default which is 15 seconds"
DefaultDelaySeconds == 15

\* "_either_ AWS_POLL_DELAY_SECONDS _or_ 2 if the user has not set AWS_POLL_DELAY_SECONDS"
LegacyDelaySeconds == 2

\* an environment variable: unset (os.Getenv returns ""), or set to a number
Unset == [set |-> FALSE, val |-> 0]

EnvSet(n) == [set |-> TRUE, val |-> n]

\* the AWSPollingConfig values and the environments the checks run over
PollingConfigs == [MaxAttempts : {0, 5}, DelaySeconds : {0, 3}]

Environments ==
    [AWS_POLL_DELAY_SECONDS : {Unset, EnvSet(4)},
     AWS_TIMEOUT_SECONDS : {Unset, EnvSet(60)},
     AWS_MAX_ATTEMPTS : {Unset, EnvSet(10)}]

\* maxAttemptsIsSet := maxAttemptsEnv != "" || w.MaxAttempts != 0
MaxAttemptsIsSet(cw, env) == env.AWS_MAX_ATTEMPTS.set \/ cw.MaxAttempts # 0

\* timeoutSecondsIsSet := timeoutSecondsEnv != ""
TimeoutSecondsIsSet(cw, env) == env.AWS_TIMEOUT_SECONDS.set

\* pollDelayIsSet := pollDelayEnv != "" || w.DelaySeconds != 0
PollDelayIsSet(cw, env) == env.AWS_POLL_DELAY_SECONDS.set \/ cw.DelaySeconds # 0

\* the deprecation warning is tested on its own, not as the else of the first test
LogMessagesNoElse(cw, env) ==
    (IF MaxAttemptsIsSet(cw, env) /\ TimeoutSecondsIsSet(cw, env)
     THEN IF ~PollDelayIsSet(cw, env)
          THEN <<"WARNING: both set, AWS_TIMEOUT_SECONDS discarded, 2-second delay">>
          ELSE <<"WARNING: both set, AWS_TIMEOUT_SECONDS discarded">>
     ELSE <<>>)
    \o (IF TimeoutSecondsIsSet(cw, env)
        THEN <<"WARNING: AWS_TIMEOUT_SECONDS is deprecated">>
        ELSE <<>>)
    \o (IF ~MaxAttemptsIsSet(cw, env) /\ ~TimeoutSecondsIsSet(cw, env)
            /\ ~PollDelayIsSet(cw, env)
        THEN <<"INFO: no overrides set">>
        ELSE <<>>)

\* the messages one call of LogEnvOverrideWarnings writes, in order
LogMessages(cw, env) ==
    (IF MaxAttemptsIsSet(cw, env) /\ TimeoutSecondsIsSet(cw, env)
     THEN IF ~PollDelayIsSet(cw, env)
          THEN <<"WARNING: both set, AWS_TIMEOUT_SECONDS discarded, 2-second delay">>
          ELSE <<"WARNING: both set, AWS_TIMEOUT_SECONDS discarded">>
     ELSE IF TimeoutSecondsIsSet(cw, env)
     THEN <<"WARNING: AWS_TIMEOUT_SECONDS is deprecated">>
     ELSE <<>>)
    \o (IF ~MaxAttemptsIsSet(cw, env) /\ ~TimeoutSecondsIsSet(cw, env)
            /\ ~PollDelayIsSet(cw, env)
        THEN <<"INFO: no overrides set">>
        ELSE <<>>)

\* the waiter parameters with the environment taking precedence over the config
WaiterOptionsEnvFirst(cw, env) ==
    LET maxV == IF env.AWS_MAX_ATTEMPTS.set THEN env.AWS_MAX_ATTEMPTS
                ELSE IF cw.MaxAttempts # 0 THEN EnvSet(cw.MaxAttempts) ELSE Unset
        delayV == IF env.AWS_POLL_DELAY_SECONDS.set THEN env.AWS_POLL_DELAY_SECONDS
                  ELSE IF cw.DelaySeconds # 0 THEN EnvSet(cw.DelaySeconds) ELSE Unset
        timeoutV == env.AWS_TIMEOUT_SECONDS
        legacyDelay == IF delayV.set THEN delayV.val ELSE LegacyDelaySeconds
    IN  [attempts |-> IF maxV.set THEN maxV.val
                      ELSE IF timeoutV.set THEN timeoutV.val \div legacyDelay
                      ELSE DefaultMaxAttempts,
         delay |-> IF delayV.set THEN delayV.val
                   ELSE IF ~maxV.set /\ timeoutV.set THEN LegacyDelaySeconds
                   ELSE DefaultDelaySeconds]

\* the waiter parameters: the explicit non-zero config value, else the environment
\* variable; without a max-attempts value, AWS_TIMEOUT_SECONDS divided by the poll
\* delay (2 seconds when unset); else the waiter's default
WaiterOptions(cw, env) ==
    LET maxV == IF cw.MaxAttempts # 0 THEN EnvSet(cw.MaxAttempts)
                ELSE env.AWS_MAX_ATTEMPTS
        delayV == IF cw.DelaySeconds # 0 THEN EnvSet(cw.DelaySeconds)
                  ELSE env.AWS_POLL_DELAY_SECONDS
        timeoutV == env.AWS_TIMEOUT_SECONDS
        legacyDelay == IF delayV.set THEN delayV.val ELSE LegacyDelaySeconds
    IN  [attempts |-> IF maxV.set THEN maxV.val
                      ELSE IF timeoutV.set THEN timeoutV.val \div legacyDelay
                      ELSE DefaultMaxAttempts,
         delay |-> IF delayV.set THEN delayV.val
                   ELSE IF ~maxV.set /\ timeoutV.set THEN LegacyDelaySeconds
                   ELSE DefaultDelaySeconds]

InitPoll ==
    /\ w \in PollingConfigs
    /\ environ \in Environments
    /\ given = [w |-> w, environ |-> environ]
    /\ logged = <<>>
    /\ logCalls = <<>>
    /\ waiterOpts = <<>>

\* the call writes its messages and stores the 2-second delay it announces
LogEnvOverrideWarningsStoresDelay ==
    /\ UNCHANGED notPollVars
    /\ Len(logCalls) < MaxLogCalls
    /\ logged' = logged \o LogMessages(w, environ)
    /\ logCalls' = Append(logCalls, Len(LogMessages(w, environ)))
    /\ w' = IF TimeoutSecondsIsSet(w, environ) /\ ~PollDelayIsSet(w, environ)
            THEN [w EXCEPT !.DelaySeconds = LegacyDelaySeconds] ELSE w
    /\ UNCHANGED <<environ, given, waiterOpts>>

\* func (w *AWSPollingConfig) LogEnvOverrideWarnings()
LogEnvOverrideWarnings ==
    /\ UNCHANGED notPollVars
    /\ Len(logCalls) < MaxLogCalls
    /\ logged' = logged \o LogMessages(w, environ)
    /\ logCalls' = Append(logCalls, Len(LogMessages(w, environ)))
    /\ UNCHANGED <<w, environ, given, waiterOpts>>

\* a wait resolves its parameters from the config and the environment
ResolveWaiterOptions ==
    /\ UNCHANGED notPollVars
    /\ Len(waiterOpts) < MaxResolutions
    /\ waiterOpts' = Append(waiterOpts, WaiterOptions(w, environ))
    /\ UNCHANGED <<w, environ, given, logged, logCalls>>

NextPoll ==
    \/ LogEnvOverrideWarnings
    \/ ResolveWaiterOptions

----------------------------------------------------------------------------
(* Strings as sequences of characters, and the patterns of ValidateKmsKey *)

Lower == {"a", "b", "c", "d", "e", "f", "g", "h", "i", "j", "k", "l", "m", "n", "o",
          "p", "q", "r", "s", "t", "u", "v", "w", "x", "y", "z"}

Upper == {"A", "B", "C", "D", "E", "F", "G", "H", "I", "J", "K", "L", "M", "N", "O",
          "P", "Q", "R", "S", "T", "U", "V", "W", "X", "Y", "Z"}

Digit == {"0", "1", "2", "3", "4", "5", "6", "7", "8", "9"}

\* [a-f0-9]
Hex == {"a", "b", "c", "d", "e", "f"} \cup Digit

\* [a-f0-9-]
HexDash == Hex \cup {"-"}

\* [a-zA-Z0-9:/_-]
AliasChar == Lower \cup Upper \cup Digit \cup {":", "/", "_", "-"}

\* C+ : one or more characters of the class C, and nothing else
Plus(s, C) == Len(s) >= 1 /\ \A i \in 1..Len(s) : s[i] \in C

\* C{n} : exactly n characters of the class C
Exactly(s, C, n) == Len(s) = n /\ \A i \in 1..Len(s) : s[i] \in C

HasPrefix(s, pre) == Len(s) >= Len(pre) /\ SubSeq(s, 1, Len(pre)) = pre

DropPrefix(s, pre) == SubSeq(s, Len(pre) + 1, Len(s))

\* the pieces of s between the occurrences of the character sep
RECURSIVE SplitAt(_, _)
SplitAt(s, sep) ==
    IF \A i \in 1..Len(s) : s[i] # sep
    THEN <<s>>
    ELSE LET k == CHOOSE i \in 1..Len(s) : s[i] = sep /\ \A j \in 1..(i - 1) : s[j] # sep
         IN  <<SubSeq(s, 1, k - 1)>> \o SplitAt(SubSeq(s, k + 1, Len(s)), sep)

\* the single-region pattern with one repetition: a hex digit, then hex digits or dashes
MatchKeyIdOneRepetition(s) ==
    /\ Len(s) >= 1
    /\ s[1] \in Hex
    /\ \A i \in 2..Len(s) : s[i] \in HexDash

\* kmsKeyIdPattern := `[a-f0-9]+[a-f0-9-]+$`, matched from the start of s
MatchKeyId(s) ==
    \E k \in 1..(Len(s) - 1) :
        /\ Plus(SubSeq(s, 1, k), Hex)
        /\ Plus(SubSeq(s, k + 1, Len(s)), HexDash)

\* mrkKeyIdPattern := `mrk-[a-f0-9]+[a-f0-9-]+$`, matched from the start of s
MatchMrkKeyId(s) ==
    /\ HasPrefix(s, <<"m", "r", "k", "-">>)
    /\ MatchKeyId(DropPrefix(s, <<"m", "r", "k", "-">>))

\* aliasPattern := `alias/[a-zA-Z0-9:/_-]+$`, matched from the start of s
MatchAlias(s) ==
    /\ HasPrefix(s, <<"a", "l", "i", "a", "s", "/">>)
    /\ Plus(DropPrefix(s, <<"a", "l", "i", "a", "s", "/">>), AliasChar)

\* aws(-[a-z]{2}(-gov)?)?
MatchPartition(s) ==
    /\ HasPrefix(s, <<"a", "w", "s">>)
    /\ LET rest == DropPrefix(s, <<"a", "w", "s">>)
       IN  \/ rest = <<>>
           \/ /\ Len(rest) >= 3
              /\ rest[1] = "-"
              /\ Exactly(SubSeq(rest, 2, 3), Lower, 2)
              /\ DropPrefix(rest, SubSeq(rest, 1, 3)) \in {<<>>, <<"-", "g", "o", "v">>}

\* ([a-z]{2}-(gov-)?[a-z]+-\d{1})?
MatchRegion(s) ==
    \/ s = <<>>
    \/ LET parts == SplitAt(s, "-")
       IN  /\ Len(parts) \in {3, 4}
           /\ Exactly(parts[1], Lower, 2)
           /\ Len(parts) = 4 => parts[2] = <<"g", "o", "v">>
           /\ Plus(parts[Len(parts) - 1], Lower)
           /\ Exactly(parts[Len(parts)], Digit, 1)

\* kmsArnStartPattern :=
\*   `^arn:aws(-[a-z]{2}(-gov)?)?:kms:([a-z]{2}-(gov-)?[a-z]+-\d{1})?:(\d{12}):`
\* matched against the whole of s
MatchArnStart(s) ==
    LET fields == SplitAt(s, ":")
    IN  /\ Len(fields) = 6
        /\ fields[1] = <<"a", "r", "n">>
        /\ MatchPartition(fields[2])
        /\ fields[3] = <<"k", "m", "s">>
        /\ MatchRegion(fields[4])
        /\ Exactly(fields[5], Digit, 12)
        /\ fields[6] = <<>>

\* kmsArnStartPattern followed by one of: key/ + key id, key/ + mrk key id, alias
MatchArn(s) ==
    \E k \in 1..Len(s) :
        /\ MatchArnStart(SubSeq(s, 1, k))
        /\ LET rest == SubSeq(s, k + 1, Len(s))
           IN  \/ /\ HasPrefix(rest, <<"k", "e", "y", "/">>)
                  /\ \/ MatchKeyId(DropPrefix(rest, <<"k", "e", "y", "/">>))
                     \/ MatchMrkKeyId(DropPrefix(rest, <<"k", "e", "y", "/">>))
               \/ MatchAlias(rest)

\* a key id is accepted after one hex digit already
ValidateKmsKeyOneRepetition(kmsKey) ==
    \/ MatchKeyIdOneRepetition(kmsKey)
    \/ MatchMrkKeyId(kmsKey)
    \/ MatchAlias(kmsKey)
    \/ MatchArn(kmsKey)

\* func ValidateKmsKey(kmsKey string) (valid bool)
ValidateKmsKey(kmsKey) ==
    \/ MatchKeyId(kmsKey)
    \/ MatchMrkKeyId(kmsKey)
    \/ MatchAlias(kmsKey)
    \/ MatchArn(kmsKey)

----------------------------------------------------------------------------
(* AMIConfig.Prepare *)

\* the orders in which a range over a map with the keys S can visit them
Orders(S) == {o \in [1..Cardinality(S) -> S] : \A i, j \in DOMAIN o : i # j => o[i] # o[j]}

\* one error of the list Prepare returns: its message and what the message names
E(m, a) == [msg |-> m, arg |-> a]

\* the characters templateCleanAMIName keeps
AMINameAllowed ==
    Lower \cup Upper \cup Digit \cup {"(", ")", "[", "]", " ", ".", "/", "-", "'", "@", "_"}

\* templateCleanAMIName: every other character is replaced by a dash
templateCleanAMIName(name) ==
    [i \in 1..Len(name) |-> IF name[i] \in AMINameAllowed THEN name[i] ELSE "-"]

\* every string is found in every slice
stringInSliceAlways(sl, searchstr) == TRUE

\* stringInSlice(s, searchstr)
stringInSlice(sl, searchstr) == \E i \in 1..Len(sl) : sl[i] = searchstr

\* prepareRegions: the regions kept, the errors and the regions logged as dropped,
\* after the first n of ami_regions
RECURSIVE prepareRegionsUpTo(_, _, _)
prepareRegionsUpTo(c, rawRegion, n) ==
    IF n = 0
    THEN [regions |-> <<>>, errs |-> <<>>, logged |-> <<>>]
    ELSE LET before == prepareRegionsUpTo(c, rawRegion, n - 1)
             region == c.AMIRegions[n]
             seen == \E i \in 1..(n - 1) : c.AMIRegions[i] = region
             missing == DOMAIN c.AMIRegionKMSKeyIDs # {}
                        /\ region \notin DOMAIN c.AMIRegionKMSKeyIDs
             errs == IF ~seen /\ missing
                     THEN Append(before.errs,
                                 E("Region is in ami_regions but not in region_kms_key_ids",
                                   region))
                     ELSE before.errs
         IN  IF seen
             THEN [regions |-> before.regions, errs |-> errs, logged |-> before.logged]
             ELSE IF rawRegion # Nil /\ region = rawRegion
             THEN [regions |-> before.regions, errs |-> errs,
                   logged |-> Append(before.logged, region)]
             ELSE [regions |-> Append(before.regions, region), errs |-> errs,
                   logged |-> before.logged]

\* prepareRegions never assigns c.AMIRegions
prepareRegionsKeepsList(c, rawRegion) ==
    IF Len(c.AMIRegions) > 0
    THEN [prepareRegionsUpTo(c, rawRegion, Len(c.AMIRegions))
             EXCEPT !.regions = c.AMIRegions]
    ELSE [regions |-> c.AMIRegions, errs |-> <<>>, logged |-> <<>>]

\* func (c *AMIConfig) prepareRegions(accessConfig *AccessConfig) (errs []error)
prepareRegions(c, rawRegion) ==
    IF Len(c.AMIRegions) > 0
    THEN prepareRegionsUpTo(c, rawRegion, Len(c.AMIRegions))
    ELSE [regions |-> c.AMIRegions, errs |-> <<>>, logged |-> <<>>]

\* c.AMIEncryptBootVolume.True()
EncryptBootTrue(c) == c.AMIEncryptBootVolume = "true"

\* time.Parse(time.RFC3339, t) succeeds
ValidRFC3339(t) == t \in {"2030-01-02T03:04:05Z"}

\* kmsKeys: kms_key_id first, then the non-empty region keys in the order o of the range
KmsKeys(c, o) ==
    (IF Len(c.AMIKmsKeyId) > 0
     THEN <<[from |-> "kms_key_id", key |-> c.AMIKmsKeyId]>> ELSE <<>>)
    \o LET nonEmpty == SelectSeq(o, LAMBDA r : Len(c.AMIRegionKMSKeyIDs[r]) > 0)
       IN  [i \in 1..Len(nonEmpty) |->
               [from |-> nonEmpty[i], key |-> c.AMIRegionKMSKeyIDs[nonEmpty[i]]]]

\* one error per region of the range o whose key is empty
EmptyRegionKeys(c, o, m) ==
    LET empty == SelectSeq(o, LAMBDA r : Len(c.AMIRegionKMSKeyIDs[r]) = 0)
    IN  [i \in 1..Len(empty) |-> E(m, empty[i])]

\* a name of exactly 128 characters is refused
AMINameLengthBadOffByOne(name) == Len(name) < 3 \/ Len(name) >= 128

\* len(c.AMIName) < 3 || len(c.AMIName) > 128
AMINameLengthBad(name) == Len(name) < 3 \/ Len(name) > 128

\* c.AMIName != templateCleanAMIName(c.AMIName)
AMINameCharsBad(name) == name # templateCleanAMIName(name)

\* only ami_users counts as sharing
AMISharedUsersOnly(c) == Len(c.AMIUsers) > 0

\* len(c.AMIUsers) > 0 || len(c.AMIOrgArns) > 0 || len(c.AMIOuArns) > 0
AMIShared(c) == Len(c.AMIUsers) > 0 \/ Len(c.AMIOrgArns) > 0 \/ Len(c.AMIOuArns) > 0

\* len(c.AMIKmsKeyId) == 0 && len(c.AMIRegionKMSKeyIDs) == 0 && encrypt_boot true
DefaultKeyEncrypted(c) ==
    /\ Len(c.AMIKmsKeyId) = 0
    /\ DOMAIN c.AMIRegionKMSKeyIDs = {}
    /\ EncryptBootTrue(c)

\* the errors Prepare collects, in the order it appends them; o1..o4 are the orders
\* of its four ranges over region_kms_key_ids
AMIConfigErrors(c, rawRegion, o1, o2, o3, o4) ==
    LET notInRegions == SelectSeq(o1, LAMBDA r : ~stringInSlice(c.AMIRegions, r))
        kmsKeys == KmsKeys(c, o3)
        invalid == SelectSeq(kmsKeys, LAMBDA k : ~ValidateKmsKey(k.key))
    IN  [i \in 1..Len(c.TagErrs) |-> E(c.TagErrs[i], "")]
        \o (IF c.AMIName = <<>> THEN <<E("ami_name must be specified", "")>> ELSE <<>>)
        \o [i \in 1..Len(notInRegions) |->
                E("Region is in region_kms_key_ids but not in ami_regions",
                  notInRegions[i])]
        \o prepareRegions(c, rawRegion).errs
        \o (IF AMIShared(c) /\ DefaultKeyEncrypted(c)
            THEN <<E("Cannot share AMI encrypted with default KMS key", "")>>
            ELSE <<>>)
        \o (IF AMIShared(c)
            THEN EmptyRegionKeys(c, o2,
                     "Cannot share AMI encrypted with default KMS key for other regions")
            ELSE <<>>)
        \o (IF Len(kmsKeys) > 0 /\ ~EncryptBootTrue(c)
            THEN <<E("encrypt_boot must also be true", "")>> ELSE <<>>)
        \o [i \in 1..Len(invalid) |-> E("is not a valid KMS Key Id", invalid[i].from)]
        \o (IF Len(c.SnapshotUsers) > 0 /\ DefaultKeyEncrypted(c)
            THEN <<E("Cannot share snapshot encrypted with default KMS key, see docs", "")>>
            ELSE <<>>)
        \o (IF Len(c.SnapshotUsers) > 0
            THEN EmptyRegionKeys(c, o4,
                     "Cannot share snapshot encrypted with default KMS key")
            ELSE <<>>)
        \o (IF AMINameLengthBad(c.AMIName)
            THEN <<E("ami_name must be between 3 and 128 characters long", "")>>
            ELSE <<>>)
        \o (IF AMINameCharsBad(c.AMIName)
            THEN <<E("AMIName should only contain", "")>> ELSE <<>>)
        \o (IF c.AMIIMDSSupport # "" /\ c.AMIIMDSSupport # "v2.0"
            THEN <<E("The only valid imds_support values are", "")>> ELSE <<>>)
        \o (IF c.DeprecationTime # "" /\ ~ValidRFC3339(c.DeprecationTime)
            THEN <<E("deprecate_at is not a valid time", "")>> ELSE <<>>)

\* what Prepare leaves in the config: the regions kept by prepareRegions, and
\* deregistration protection enabled when a cooldown is asked for
AMIConfigPrepared(c, rawRegion) ==
    [c EXCEPT !.AMIRegions = prepareRegions(c, rawRegion).regions,
              !.DeregistrationProtection =
                  [Enabled |-> c.DeregistrationProtection.Enabled
                               \/ c.DeregistrationProtection.WithCooldown,
                   WithCooldown |-> c.DeregistrationProtection.WithCooldown]]

\* a KMS key ValidateKmsKey accepts, and one it refuses
AliasKey == <<"a", "l", "i", "a", "s", "/", "k">>
NotAKey == <<"n", "o", "k", "e", "y">>

\* the zero AMIConfig
AMIConfigZero ==
    [TagErrs |-> <<>>, AMIName |-> <<>>, AMIRegions |-> <<>>, AMIRegionKMSKeyIDs |-> <<>>,
     AMIKmsKeyId |-> <<>>, AMIEncryptBootVolume |-> "unset", AMIUsers |-> <<>>,
     AMIOrgArns |-> <<>>, AMIOuArns |-> <<>>, SnapshotUsers |-> <<>>,
     AMIIMDSSupport |-> "", DeprecationTime |-> "",
     DeregistrationProtection |-> [Enabled |-> FALSE, WithCooldown |-> FALSE]]

\* Prepare is about to be called on the config c with the session region r
AMIStart(c, r) ==
    /\ amiConfig = c
    /\ accessRegion = r
    /\ amiGiven = c
    /\ amiErrs = <<>>
    /\ amiPc = "start"
    /\ amiLog = <<>>

\* Prepare is not called
AMIIdle ==
    /\ amiConfig = AMIConfigZero
    /\ accessRegion = Nil
    /\ amiGiven = AMIConfigZero
    /\ amiErrs = <<>>
    /\ amiPc = "idle"
    /\ amiLog = <<>>

\* func (c *AMIConfig) Prepare(accessConfig *AccessConfig, ctx *interpolate.Context) []error
AMIConfigPrepare ==
    /\ UNCHANGED notAmiVars
    /\ amiPc = "start"
    /\ \E o1, o2, o3, o4 \in Orders(DOMAIN amiConfig.AMIRegionKMSKeyIDs) :
        amiErrs' = AMIConfigErrors(amiConfig, accessRegion, o1, o2, o3, o4)
    /\ amiConfig' = AMIConfigPrepared(amiConfig, accessRegion)
    /\ amiLog' = amiLog \o prepareRegions(amiConfig, accessRegion).logged
    /\ amiPc' = "done"
    /\ UNCHANGED <<accessRegion, amiGiven>>

\* c.prepareRegions(accessConfig) is applied to the prepared config once more; the
\* caller appends the errors it returns
PrepareRegionsAgain ==
    /\ UNCHANGED notAmiVars
    /\ amiPc = "done"
    /\ amiConfig' = [amiConfig EXCEPT
                         !.AMIRegions = prepareRegions(amiConfig, accessRegion).regions]
    /\ amiErrs' = amiErrs \o prepareRegions(amiConfig, accessRegion).errs
    /\ amiLog' = amiLog \o prepareRegions(amiConfig, accessRegion).logged
    /\ amiPc' = "again"
    /\ UNCHANGED <<accessRegion, amiGiven>>

\* how many regions ami_regions lists
MaxRegions == 3

\* the regions of the configurations
Regions == {"us-east-1", "us-west-2"}

\* the configurations the region and key rules run over: a valid name, and every
\* ami_regions, region_kms_key_ids, kms_key_id, encrypt_boot and sharing setting
RegionKeyConfigs ==
    {[AMIConfigZero EXCEPT !.AMIName = <<"a", "m", "i">>,
                           !.AMIRegions = regions,
                           !.AMIRegionKMSKeyIDs = keys,
                           !.AMIKmsKeyId = key,
                           !.AMIEncryptBootVolume = encrypt,
                           !.AMIUsers = users,
                           !.AMIOrgArns = orgs,
                           !.SnapshotUsers = snapshotUsers] :
        regions \in UNION {[1..n -> Regions] : n \in 0..MaxRegions},
        keys \in UNION {[D -> {<<>>, AliasKey}] : D \in SUBSET Regions},
        key \in {<<>>, AliasKey},
        encrypt \in {"unset", "true", "false"},
        users \in {<<>>, <<"123456789012">>},
        orgs \in {<<>>, <<"arn:aws:organizations::123456789012:organization/o-1">>},
        snapshotUsers \in {<<>>, <<"123456789012">>}}

\* Prepare is called on one of these configurations, with or without an access
\* configuration
InitAMIRegions ==
    \E c \in RegionKeyConfigs : \E r \in {Nil, "us-east-1"} : AMIStart(c, r)

NextAMIRegions ==
    \/ AMIConfigPrepare
    \/ PrepareRegionsAgain

NextAMI == AMIConfigPrepare

\* how long the varied part of an ami_name is
MaxNameBody == 3

\* the characters the varied part of an ami_name is made of
NameAlphabet == {"a", "Z", "7", "(", " ", "#"}

\* the ami_name examples
NameExamples ==
    {<<"M", "y", " ", "A", "M", "I", " ", "(", "v", "1", ".", "0", ")", " ", "[", "t",
       "e", "s", "t", "]">>,
     <<"a", "b">>,
     <<"i", "t", "'", "s", "_", "m", "e", "@", "h", "o", "m", "e", "/", "x", "-", "1">>,
     <<"a", "m", "i", "#", "1">>}

\* s followed by n times the character "a"
Padded(s, n) == s \o [i \in 1..n |-> "a"]

\* the ami_name values the checks run over: short names, and names of 125 to
\* 126 + MaxNameBody characters
AMINames ==
    NameExamples
    \cup {Padded(body, n) : body \in UNION {[1..k -> NameAlphabet] : k \in 0..MaxNameBody},
                            n \in {0, 125, 126}}

\* Prepare is called on a config in which only ami_name is set
InitAMIName == \E name \in AMINames : AMIStart([AMIConfigZero EXCEPT !.AMIName = name], Nil)

\* how long the varied part of a KMS key is
MaxKeyBody == 3

\* the characters the varied part of a KMS key is made of
KeyAlphabet == {"a", "0", "-", "g", "A", "_", ":"}

\* what the varied part of a KMS key follows
KeyPrefixes ==
    {<<>>,
     <<"m", "r", "k", "-">>,
     <<"a", "l", "i", "a", "s", "/">>,
     <<"a", "r", "n", ":", "a", "w", "s", ":", "k", "m", "s", ":", "u", "s", "-",
       "e", "a", "s", "t", "-", "1", ":", "1", "2", "3", "4", "5", "6", "7", "8", "9",
       "0", "1", "2", ":", "k", "e", "y", "/">>,
     <<"a", "r", "n", ":", "a", "w", "s", ":", "k", "m", "s", ":", "u", "s", "-",
       "e", "a", "s", "t", "-", "1", ":", "1", "2", "3", "4", "5", "6", "7", "8", "9",
       "0", "1", "2", ":", "k", "e", "y", "/", "m", "r", "k", "-">>,
     <<"a", "r", "n", ":", "a", "w", "s", ":", "k", "m", "s", ":", "u", "s", "-",
       "e", "a", "s", "t", "-", "1", ":", "1", "2", "3", "4", "5", "6", "7", "8", "9",
       "0", "1", "2", ":", "a", "l", "i", "a", "s", "/">>,
     <<"a", "r", "n", ":", "a", "w", "s", "-", "u", "s", "-", "g", "o", "v", ":",
       "k", "m", "s", ":", "u", "s", "-", "g", "o", "v", "-", "w", "e", "s", "t", "-",
       "1", ":", "1", "2", "3", "4", "5", "6", "7", "8", "9", "0", "1", "2", ":", "k",
       "e", "y", "/">>,
     <<"a", "r", "n", ":", "a", "w", "s", "-", "c", "n", ":", "k", "m", "s", ":",
       ":", "1", "2", "3", "4", "5", "6", "7", "8", "9", "0", "1", "2", ":", "k", "e",
       "y", "/">>,
     <<"a", "r", "n", ":", "a", "w", "s", ":", "k", "m", "s", ":", "u", "s", "-",
       "e", "a", "s", "t", "-", "1", ":", "1", "2", "3", "4", "5", "6", "7", "8", "9",
       "0", "1", ":", "k", "e", "y", "/">>,
     <<"a", "r", "n", ":", "a", "w", "s", ":", "s", "3", ":", "u", "s", "-", "e",
       "a", "s", "t", "-", "1", ":", "1", "2", "3", "4", "5", "6", "7", "8", "9", "0",
       "1", "2", ":", "k", "e", "y", "/">>,
     <<"a", "r", "n", ":", "a", "w", "s", "-", "u", "s", "a", ":", "k", "m", "s",
       ":", "u", "s", "-", "e", "a", "s", "t", "-", "1", ":", "1", "2", "3", "4", "5",
       "6", "7", "8", "9", "0", "1", "2", ":", "k", "e", "y", "/">>,
     <<"a", "r", "n", ":", "a", "w", "s", ":", "k", "m", "s", ":", "u", "s", "-",
       "e", "a", "s", "t", "-", "1", "2", ":", "1", "2", "3", "4", "5", "6", "7", "8",
       "9", "0", "1", "2", ":", "k", "e", "y", "/">>,
     <<"x", "a", "r", "n", ":", "a", "w", "s", ":", "k", "m", "s", ":", "u", "s",
       "-", "e", "a", "s", "t", "-", "1", ":", "1", "2", "3", "4", "5", "6", "7", "8",
       "9", "0", "1", "2", ":", "k", "e", "y", "/">>,
     <<"a", "r", "n", ":", "a", "w", "s", ":", "k", "m", "s", ":", "u", "s", "-",
       "e", "a", "s", "t", "-", "1", ":", "1", "2", "3", "4", "5", "6", "7", "8", "9",
       "0", "1", "2", ":">>}

\* the KMS key examples
KeyExamples ==
    {<<"a", "l", "i", "a", "s", "/", "m", "y", "-", "k", "e", "y">>,
     <<"1", "a", "2", "b", "3", "c", "4", "d", "-", "5", "e", "6", "f", "-", "7",
       "a", "8", "b", "-", "9", "c", "0", "d", "-", "1", "e", "2", "f", "3", "a", "4",
       "b", "5", "c", "6", "d">>,
     <<"a", "r", "n", ":", "a", "w", "s", ":", "k", "m", "s", ":", "u", "s", "-",
       "e", "a", "s", "t", "-", "1", ":", "1", "2", "3", "4", "5", "6", "7", "8", "9",
       "0", "1", "2", ":", "k", "e", "y", "/", "1", "a", "2", "b", "3", "c", "4", "d",
       "-", "5", "e", "6", "f", "-", "7", "a", "8", "b", "-", "9", "c", "0", "d", "-",
       "1", "e", "2", "f", "3", "a", "4", "b", "5", "c", "6", "d">>,
     <<"n", "o", "t", "-", "a", "-", "k", "e", "y">>}

\* the kms_key_id values the checks run over
KmsKeyInputs ==
    KeyExamples
    \cup {pre \o body : pre \in KeyPrefixes,
                        body \in UNION {[1..k -> KeyAlphabet] : k \in 0..MaxKeyBody}}

\* Prepare is called on a valid config with encrypt_boot true and a kms_key_id
InitAMIKms ==
    \E key \in KmsKeyInputs \ {<<>>} :
        AMIStart([AMIConfigZero EXCEPT !.AMIName = <<"a", "m", "i">>,
                                       !.AMIEncryptBootVolume = "true",
                                       !.AMIKmsKeyId = key], Nil)

----------------------------------------------------------------------------
(* chroot StepManualMountCommand *)

\* a file path: absolute or not, and its elements; the empty string has no element
Path(abs, segs) == [abs |-> abs, segs |-> segs]

EmptyPath == Path(FALSE, <<>>)

\* filepath.Base
Base(path) ==
    IF path.segs # <<>> THEN path.segs[Len(path.segs)]
    ELSE IF path.abs THEN "/" ELSE "."

\* the working directory
Cwd == <<"work">>

\* filepath.Abs: a relative path is joined to the working directory, which fails
\* when the working directory cannot be determined
Abs(path, getwdFails) ==
    IF path.abs THEN [err |-> FALSE, path |-> path]
    ELSE IF getwdFails THEN [err |-> TRUE, path |-> EmptyPath]
    ELSE [err |-> FALSE, path |-> Path(TRUE, Cwd \o path.segs)]

\* the template elements interpolate.Render fails on: an unclosed action and a
\* field manualMountCommandData does not have
BadTemplateElements == {"{{.Device", "{{.Disk}}"}

\* interpolate.Render(config.MountPath, &ictx) with ictx.Data.Device = device
Render(template, device) ==
    IF \E i \in 1..Len(template.segs) : template.segs[i] \in BadTemplateElements
    THEN [err |-> TRUE, path |-> EmptyPath]
    ELSE [err |-> FALSE,
          path |-> Path(template.abs,
                        [i \in 1..Len(template.segs) |->
                            IF template.segs[i] = "{{.Device}}" THEN device
                            ELSE template.segs[i]])]

\* what the state bag holds under "mount_device_cleanup": the step s itself
StepRef == [ref |-> "StepManualMountCommand"]

\* a ui.Say and a ui.Error
Say(m) == [kind |-> "say", msg |-> m]

UiError(m) == [kind |-> "error", msg |-> m]

\* the error path of Run: state.Put("error", err); ui.Error(err.Error()); return Halt
MountHalt(said) ==
    [action |-> "halt",
     put |-> <<[key |-> "error", val |-> [err |-> "Error preparing mount directory"]]>>,
     gen |-> <<>>,
     ui |-> Append(said, UiError("Error preparing mount directory")),
     mountPath |-> EmptyPath]

\* Run with an empty Command halts
ManualMountRunHaltsOnNoCommand(c) ==
    LET said == <<Say("Running manual mount commands..."), Say("Command is:")>>
    IN  MountHalt(said)

\* func (s *StepManualMountCommand) Run: the action returned, the state.Put calls
\* in order, the GeneratedData.Put calls, the ui output and s.mountPath
ManualMountRun(c) ==
    LET device == IF c.NVMEDevicePath # EmptyPath THEN c.NVMEDevicePath ELSE c.device
        said == <<Say("Running manual mount commands..."), Say("Command is:")>>
        rendered == Render(c.MountPath, Base(device))
        absolute == Abs(rendered.path, c.GetwdFails)
    IN  IF c.Command = ""
        THEN [action |-> "continue", put |-> <<>>, gen |-> <<>>, ui |-> said,
              mountPath |-> EmptyPath]
        ELSE IF rendered.err THEN MountHalt(said)
        ELSE IF absolute.err THEN MountHalt(said)
        ELSE [action |-> "continue",
              put |-> <<[key |-> "mount_path", val |-> absolute.path],
                        [key |-> "mount_device_cleanup", val |-> StepRef]>>,
              gen |-> <<[key |-> "MountPath", val |-> absolute.path]>>,
              ui |-> said \o <<Say("Mount Path After ABS is:"),
                               Say("Skip Running manual mount commands..."),
                               Say("Mount Path is:")>>,
              mountPath |-> absolute.path]

\* the state bag b after the state.Put calls puts, in order
PutAll(b, puts) ==
    [k \in DOMAIN b \cup {puts[i].key : i \in 1..Len(puts)} |->
        IF \E i \in 1..Len(puts) : puts[i].key = k
        THEN puts[CHOOSE i \in 1..Len(puts) :
                     /\ puts[i].key = k
                     /\ \A j \in 1..Len(puts) : puts[j].key = k => j <= i].val
        ELSE b[k]]

\* CleanupFunc says it unmounts whether or not a mount path was set
CleanupFuncAlwaysUnmounts(path) ==
    [err |-> Nil, ui |-> <<Say("Unmounting the root device...")>>]

\* func (s *StepManualMountCommand) CleanupFunc: the error returned (always nil)
\* and the ui output
CleanupFunc(path) ==
    IF path = EmptyPath THEN [err |-> Nil, ui |-> <<>>]
    ELSE [err |-> Nil, ui |-> <<Say("Unmounting the root device...")>>]

\* func (s *StepManualMountCommand) Cleanup: the ui output
ManualMountCleanupUi(path) ==
    CleanupFunc(path).ui
    \o (IF CleanupFunc(path).err # Nil THEN <<UiError(CleanupFunc(path).err)>> ELSE <<>>)

\* the steps of a chroot build: StepManualMountCommand, a step before it and a
\* step after it
chrootSteps == <<"StepBefore", "StepManualMountCommand", "StepAfter">>

\* the mount_path templates of the configurations
MountPathTemplates ==
    {Path(TRUE, <<"mnt", "{{.Device}}">>), Path(FALSE, <<"mnt", "{{.Device}}">>),
     EmptyPath, Path(TRUE, <<"mnt", "{{.Device">>), Path(TRUE, <<"{{.Disk}}">>)}

\* Command of the step, MountPath and NVMEDevicePath of the config, "device" of the
\* state bag, and whether the working directory can be determined
MountConfigs ==
    [Command : {"", "mount -o nouuid"}, MountPath : MountPathTemplates,
     NVMEDevicePath : {EmptyPath, Path(TRUE, <<"dev", "nvme1n1">>)},
     device : {Path(TRUE, <<"dev", "xvdf">>)}, GetwdFails : BOOLEAN]

\* the state bag the runner is given
ChrootBag == [k \in {"config", "device", "ui"} |-> [ref |-> k]]

\* the runner is about to run the steps with the configuration c
MountStart(c) ==
    /\ mCfg = c
    /\ mpc = "forward"
    /\ mIdx = 1
    /\ mBag = ChrootBag
    /\ mGen = <<>>
    /\ mUi = <<>>
    /\ mountPath = EmptyPath
    /\ mRan = <<>>
    /\ mCleaned = <<>>
    /\ mAction = "none"
    /\ mPut = {}

\* no chroot build runs
MountIdle ==
    /\ mCfg = [Command |-> "", MountPath |-> EmptyPath, NVMEDevicePath |-> EmptyPath,
               device |-> Path(TRUE, <<"dev", "xvdf">>), GetwdFails |-> FALSE]
    /\ mpc = "idle"
    /\ mIdx = 0
    /\ mBag = ChrootBag
    /\ mGen = <<>>
    /\ mUi = <<>>
    /\ mountPath = EmptyPath
    /\ mRan = <<>>
    /\ mCleaned = <<>>
    /\ mAction = "none"
    /\ mPut = {}

\* the runner after a Run returned action: unwind on Halt and after the last
\* step, else go on with the next step
AfterStepRun(action) ==
    IF action = "halt" \/ mIdx = Len(chrootSteps)
    THEN mpc' = "unwind" /\ mIdx' = mIdx
    ELSE mpc' = "forward" /\ mIdx' = mIdx + 1

\* Run of a step other than StepManualMountCommand: it continues, or stores an
\* error and halts
OtherStepRun ==
    /\ UNCHANGED <<runVars, ppVars, pollVars, amiVars, impVars, rootVars, bldVars>>
    /\ mpc = "forward"
    /\ chrootSteps[mIdx] # "StepManualMountCommand"
    /\ mRan' = Append(mRan, chrootSteps[mIdx])
    /\ \E action \in {"continue", "halt"} :
        /\ mBag' = IF action = "halt"
                   THEN Put(mBag, "error", [err |-> chrootSteps[mIdx]]) ELSE mBag
        /\ AfterStepRun(action)
    /\ UNCHANGED <<mCfg, mGen, mUi, mountPath, mCleaned, mAction, mPut>>

\* the runner invokes Run of StepManualMountCommand
StepManualMountCommandRun ==
    /\ UNCHANGED <<runVars, ppVars, pollVars, amiVars, impVars, rootVars, bldVars>>
    /\ mpc = "forward"
    /\ chrootSteps[mIdx] = "StepManualMountCommand"
    /\ mRan' = Append(mRan, chrootSteps[mIdx])
    /\ LET r == ManualMountRun(mCfg)
       IN  /\ mAction' = r.action
           /\ mBag' = PutAll(mBag, r.put)
           /\ mPut' = {r.put[i].key : i \in 1..Len(r.put)}
           /\ mGen' = PutAll(mGen, r.gen)
           /\ mUi' = mUi \o r.ui
           /\ mountPath' = IF r.action = "continue" /\ mCfg.Command # ""
                           THEN r.mountPath ELSE mountPath
           /\ AfterStepRun(r.action)
    /\ UNCHANGED <<mCfg, mCleaned>>

\* the runner after a Cleanup returned: the next Cleanup, or the end
AfterStepCleanup ==
    /\ mIdx' = mIdx - 1
    /\ mpc' = IF mIdx = 1 THEN "done" ELSE "unwind"

\* Cleanup of a step other than StepManualMountCommand
OtherStepCleanup ==
    /\ UNCHANGED <<runVars, ppVars, pollVars, amiVars, impVars, rootVars, bldVars>>
    /\ mpc = "unwind"
    /\ chrootSteps[mIdx] # "StepManualMountCommand"
    /\ mCleaned' = Append(mCleaned, chrootSteps[mIdx])
    /\ AfterStepCleanup
    /\ UNCHANGED <<mCfg, mBag, mGen, mUi, mountPath, mRan, mAction, mPut>>

\* the runner invokes Cleanup of StepManualMountCommand
StepManualMountCommandCleanup ==
    /\ UNCHANGED <<runVars, ppVars, pollVars, amiVars, impVars, rootVars, bldVars>>
    /\ mpc = "unwind"
    /\ chrootSteps[mIdx] = "StepManualMountCommand"
    /\ mCleaned' = Append(mCleaned, chrootSteps[mIdx])
    /\ mUi' = mUi \o ManualMountCleanupUi(mountPath)
    /\ AfterStepCleanup
    /\ UNCHANGED <<mCfg, mBag, mGen, mountPath, mRan, mAction, mPut>>

NextMount ==
    \/ OtherStepRun
    \/ StepManualMountCommandRun
    \/ OtherStepCleanup
    \/ StepManualMountCommandCleanup

----------------------------------------------------------------------------
(* import PostProcessor.Configure *)

\* interpolate.Validate(p.config.S3Key, &p.config.ctx) fails
TemplateInvalid(key) == key = "{{bad"

\* the configurations Configure is given; DecodeFails: config.Decode returns an error;
\* BootModeValid: awscommon.IsValidBootMode returns nil for the boot mode;
\* AccessErrs: what AccessConfig.Prepare returns
ImportConfigs ==
    [DecodeFails : BOOLEAN, BootMode : {"", "uefi", "legacy-bios", "bios"},
     BootModeValid : BOOLEAN,
     S3Key : {"", "{{bad"}, AccessErrs : {<<>>, <<"access config">>},
     S3Bucket : {"", "bucket"}, Format : {"", "vmdk", "iso"},
     Platform : {"", "linux", "mac"}, S3Encryption : {"", "aws:kms", "DES"},
     Architecture : {"", "arm64"}, AMIIMDSSupport : {"", "v2.0", "v1.0"}]

\* "packer-import-{{timestamp}}." + p.config.Format
DefaultS3Key(format) ==
    CASE format = "ova" -> "packer-import-{{timestamp}}.ova"
      [] format = "vmdk" -> "packer-import-{{timestamp}}.vmdk"
      [] format = "iso" -> "packer-import-{{timestamp}}.iso"

\* the architecture is left as given
ConfigureDefaultsNoArchitecture(c) ==
    LET format == IF c.Format = "" THEN "ova" ELSE c.Format
    IN  [c EXCEPT !.Format = format,
                  !.S3Key = IF c.S3Key = "" THEN DefaultS3Key(format) ELSE c.S3Key,
                  !.BootMode = IF c.BootMode # "" THEN c.BootMode
                               ELSE IF c.Architecture = "arm64" THEN "uefi"
                               ELSE "legacy-bios"]

\* "Set defaults", and the boot mode chosen when none is given
ConfigureDefaults(c) ==
    LET format == IF c.Format = "" THEN "ova" ELSE c.Format
        architecture == IF c.Architecture = "" THEN "x86_64" ELSE c.Architecture
    IN  [c EXCEPT !.Format = format,
                  !.S3Key = IF c.S3Key = "" THEN DefaultS3Key(format) ELSE c.S3Key,
                  !.Architecture = architecture,
                  !.BootMode = IF c.BootMode # "" THEN c.BootMode
                               ELSE IF architecture = "arm64" THEN "uefi"
                               ELSE "legacy-bios"]

\* errs, as Configure appends to it; g is the configuration before the defaults
\* and c the one after them
ConfigureErrors(g, c) ==
    (IF g.BootMode # "" /\ ~g.BootModeValid
     THEN <<"IsValidBootMode">> ELSE <<>>)
    \o (IF TemplateInvalid(c.S3Key) THEN <<"Error parsing s3_key_name template">> ELSE <<>>)
    \o c.AccessErrs
    \o (IF c.S3Bucket = "" THEN <<"s3_bucket_name must be set">> ELSE <<>>)
    \o (IF c.Format \notin {"ova", "raw", "vmdk", "vhd", "vhdx"}
        THEN <<"invalid format">> ELSE <<>>)
    \o (IF c.Platform \in {"windows", "linux"} THEN <<>>
        ELSE IF c.Platform = ""
        THEN IF c.BootMode = "uefi"
             THEN <<"invalid platform, must be set for uefi">> ELSE <<>>
        ELSE <<"invalid platform">>)
    \o (IF c.S3Encryption # "" /\ c.S3Encryption # "AES256" /\ c.S3Encryption # "aws:kms"
        THEN <<"invalid s3 encryption format">> ELSE <<>>)
    \o (IF c.BootMode # "legacy-bios" /\ c.BootMode # "uefi"
        THEN <<"invalid boot mode">> ELSE <<>>)
    \o (IF c.Architecture = "arm64" /\ c.BootMode # "uefi"
        THEN <<"invalid boot mode for arm64">> ELSE <<>>)
    \o (IF c.AMIIMDSSupport # "" /\ c.AMIIMDSSupport # "v2.0"
        THEN <<"The only valid imds_support values are">> ELSE <<>>)

\* Configure returns at the first error it finds
ConfigureResultFailFast(g) ==
    LET errs == ConfigureErrors(g, ConfigureDefaults(g))
    IN  IF g.DecodeFails THEN [kind |-> "decode error", errs |-> <<"decode">>]
        ELSE IF Len(errs) > 0 THEN [kind |-> "errors", errs |-> <<errs[1]>>]
        ELSE [kind |-> "nil", errs |-> <<>>]

\* what Configure returns: the decode error, the aggregate, or nil
ConfigureResult(g) ==
    LET errs == ConfigureErrors(g, ConfigureDefaults(g))
    IN  IF g.DecodeFails THEN [kind |-> "decode error", errs |-> <<"decode">>]
        ELSE IF Len(errs) > 0 THEN [kind |-> "errors", errs |-> errs]
        ELSE [kind |-> "nil", errs |-> <<>>]

\* Configure is about to be called with the configuration c
ImportStart(c) ==
    /\ impConfig = c
    /\ impGiven = c
    /\ impResult = [kind |-> "none", errs |-> <<>>]
    /\ impPc = "start"

\* Configure is not called
ImportIdle ==
    /\ impConfig = [DecodeFails |-> FALSE, BootMode |-> "", BootModeValid |-> TRUE,
                    S3Key |-> "",
                    AccessErrs |-> <<>>, S3Bucket |-> "bucket", Format |-> "",
                    Platform |-> "", S3Encryption |-> "", Architecture |-> "",
                    AMIIMDSSupport |-> ""]
    /\ impGiven = impConfig
    /\ impResult = [kind |-> "none", errs |-> <<>>]
    /\ impPc = "idle"

\* func (p *PostProcessor) Configure(raws ...interface{}) error; when no check is
\* violated it calls p.config.PollingConfig.LogEnvOverrideWarnings()
PPConfigure ==
    /\ UNCHANGED <<runVars, ppVars, amiVars, rootVars, bldVars, mntVars>>
    /\ impPc = "start"
    /\ impPc' = "done"
    /\ impResult' = ConfigureResult(impConfig)
    /\ impConfig' = IF impConfig.DecodeFails THEN impConfig
                    ELSE ConfigureDefaults(impConfig)
    /\ IF impResult'.kind = "nil"
       THEN /\ logged' = logged \o LogMessages(w, environ)
            /\ logCalls' = Append(logCalls, Len(LogMessages(w, environ)))
       ELSE UNCHANGED <<logged, logCalls>>
    /\ UNCHANGED <<w, environ, given, waiterOpts, impGiven>>

----------------------------------------------------------------------------
(* RootBlockDevice.Prepare *)

RootBlockDevices ==
    [SourceDeviceName : {"", "/dev/sda1"}, DeviceName : {"", "/dev/xvda"},
     VolumeType : {"gp2", "io1"}, IOPS : {-1, 0, 100}, VolumeSize : {-1, 0, 8},
     ImageMethod : {"", "create", "snapshot"}]

\* errs, as RootBlockDevice.Prepare appends to it
RootBlockDeviceErrors(c) ==
    (IF c.SourceDeviceName = ""
     THEN <<"source_device_name for the root_device must be specified">> ELSE <<>>)
    \o (IF c.DeviceName = ""
        THEN <<"device_name for the root_device must be specified">> ELSE <<>>)
    \o (IF c.VolumeType = "gp2" /\ c.IOPS # 0
        THEN <<"iops may not be specified for a gp2 volume">> ELSE <<>>)
    \o (IF c.IOPS < 0 THEN <<"iops must be greater than 0">> ELSE <<>>)
    \o (IF c.VolumeSize < 0 THEN <<"volume_size must be greater than 0">> ELSE <<>>)
    \o (IF c.ImageMethod # "" /\ c.ImageMethod # "create" /\ c.ImageMethod # "register"
        THEN <<"image_method must be 'create', 'register' or an empty string">>
        ELSE <<>>)

\* Prepare is about to be called on the device c
RootStart(c) ==
    /\ rootDevice = c
    /\ rootGiven = c
    /\ rootErrs = <<>>
    /\ rootPc = "start"

\* Prepare is not called
RootIdle ==
    /\ rootDevice = [SourceDeviceName |-> "/dev/sda1", DeviceName |-> "/dev/xvda",
                     VolumeType |-> "gp2", IOPS |-> 0, VolumeSize |-> 0,
                     ImageMethod |-> ""]
    /\ rootGiven = rootDevice
    /\ rootErrs = <<>>
    /\ rootPc = "idle"

\* func (c *RootBlockDevice) Prepare(ctx *interpolate.Context) []error
RootBlockDevicePrepare ==
    /\ UNCHANGED <<runVars, ppVars, pollVars, amiVars, impVars, bldVars, mntVars>>
    /\ rootPc = "start"
    /\ rootPc' = "done"
    /\ rootErrs' = RootBlockDeviceErrors(rootDevice)
    /\ rootDevice' = IF rootDevice.ImageMethod = ""
                     THEN [rootDevice EXCEPT !.ImageMethod = "register"]
                     ELSE rootDevice
    /\ UNCHANGED rootGiven

----------------------------------------------------------------------------
(* ebsvolume Builder.Prepare *)

\* how many ebs_volumes blocks a configuration has
MaxVolumes == 2

\* an ebs_volumes block, as far as Builder.Prepare reads it
VolumeMappingKinds ==
    {[SnapshotDescription |-> "", SnapshotVolume |-> FALSE],
     [SnapshotDescription |-> "nightly", SnapshotVolume |-> FALSE],
     [SnapshotDescription |-> "nightly", SnapshotVolume |-> TRUE]}

\* the configurations Builder.Prepare is given; DecodeFails: config.Decode returns an
\* error; TagErrs: what VolumeRunTag.CopyOn returns; AccessErrs, RunErrs, VolumeErrs:
\* what the Prepare of the access config, of the run config and of the volume
\* mappings return; IsSpot: what IsSpotInstance()
\* returns. launchBlockDevices is empty when Prepare is called, and its Prepare
\* returns nothing.
BuilderConfigs ==
    [DecodeFails : BOOLEAN, TagErrs : {<<>>, <<"run_volume_tag">>},
     AccessErrs : {<<>>, <<"access config">>},
     RunErrs : {<<>>, <<"run config">>}, VolumeErrs : {<<>>, <<"ebs_volumes">>},
     IsSpot : BOOLEAN, AMIENASupport : {"unset", "true"},
     AMISriovNetSupport : BOOLEAN, SpotPriceAutoProduct : {"", "Linux/UNIX"},
     EnableT2Unlimited : BOOLEAN,
     VolumeMappings : UNION {[1..k -> VolumeMappingKinds] : k \in 0..MaxVolumes},
     launchBlockDevices : {<<>>}]

\* errs, as Builder.Prepare appends to it
BuilderErrors(c) ==
    LET undescribed == SelectSeq(c.VolumeMappings,
                           LAMBDA v : v.SnapshotDescription # "" /\ ~v.SnapshotVolume)
    IN  c.TagErrs
        \o c.AccessErrs
        \o c.RunErrs
        \o c.VolumeErrs
        \o (IF c.IsSpot /\ (c.AMIENASupport = "true" \/ c.AMISriovNetSupport)
            THEN <<"Spot instances do not support modification">> ELSE <<>>)
        \o [i \in 1..Len(undescribed) |->
                "All ebs_volumes blocks setting snapshot_description must also set snapshot_volume"]

\* warns, as Builder.Prepare appends to it
BuilderWarnings(c) ==
    (IF c.SpotPriceAutoProduct # "" THEN <<"spot_price_auto_product is deprecated">>
     ELSE <<>>)
    \o (IF c.EnableT2Unlimited THEN <<"enable_t2_unlimited is deprecated">> ELSE <<>>)

\* what Builder.Prepare returns: generated data, warnings and error
BuilderPrepareResult(c) ==
    IF c.DecodeFails
    THEN [kind |-> "decode error", generatedData |-> FALSE, warns |-> <<>>,
          errs |-> <<"decode">>]
    ELSE IF Len(BuilderErrors(c)) > 0
    THEN [kind |-> "errors", generatedData |-> FALSE, warns |-> BuilderWarnings(c),
          errs |-> BuilderErrors(c)]
    ELSE [kind |-> "nil", generatedData |-> TRUE, warns |-> BuilderWarnings(c),
          errs |-> <<>>]

\* Prepare is about to be called with the configuration c
BuilderStart(c) ==
    /\ bldConfig = c
    /\ bldGiven = c
    /\ bldResult = [kind |-> "none", generatedData |-> FALSE, warns |-> <<>>,
                    errs |-> <<>>]
    /\ bldPc = "start"

\* Prepare is not called
BuilderIdle ==
    /\ bldConfig = [DecodeFails |-> FALSE, TagErrs |-> <<>>, AccessErrs |-> <<>>, RunErrs |-> <<>>,
                    VolumeErrs |-> <<>>, IsSpot |-> FALSE, AMIENASupport |-> "unset",
                    AMISriovNetSupport |-> FALSE, SpotPriceAutoProduct |-> "",
                    EnableT2Unlimited |-> FALSE, VolumeMappings |-> <<>>,
                    launchBlockDevices |-> <<>>]
    /\ bldGiven = bldConfig
    /\ bldResult = [kind |-> "none", generatedData |-> FALSE, warns |-> <<>>,
                    errs |-> <<>>]
    /\ bldPc = "idle"

\* func (b *Builder) Prepare(raws ...interface{}) ([]string, []string, error)
BuilderPrepare ==
    /\ UNCHANGED <<runVars, ppVars, pollVars, amiVars, impVars, rootVars, mntVars>>
    /\ bldPc = "start"
    /\ bldPc' = "done"
    /\ bldResult' = BuilderPrepareResult(bldConfig)
    /\ bldConfig' = IF bldConfig.DecodeFails THEN bldConfig
                    ELSE [bldConfig EXCEPT !.launchBlockDevices = bldConfig.VolumeMappings]
    /\ UNCHANGED bldGiven

\* the AMI configurations the checks run over
PrepareAMIConfigs ==
    [AMIName : {<<>>, <<"a", "m", "i">>, <<"a", "#", "b">>},
     AMIRegions : {<<>>, <<"us-east-1">>, <<"us-east-1", "us-west-2">>},
     AMIRegionKMSKeyIDs : {<<>>, [r \in {"us-east-1"} |-> AliasKey],
                           [r \in {"us-east-1"} |-> <<>>],
                           [r \in {"us-west-2"} |-> AliasKey],
                           [r \in {"us-east-1", "us-west-2"} |->
                               IF r = "us-east-1" THEN NotAKey ELSE <<>>]},
     AMIKmsKeyId : {<<>>, AliasKey, NotAKey}, TagErrs : {<<>>, <<"tag">>},
     AMIEncryptBootVolume : {"unset", "true"},
     AMIUsers : {<<>>, <<"123456789012">>},
     AMIOrgArns : {<<>>}, AMIOuArns : {<<>>},
     SnapshotUsers : {<<>>, <<"123456789012">>},
     AMIIMDSSupport : {"", "v2.0", "v1.0"},
     DeprecationTime : {"", "tomorrow"},
     DeregistrationProtection : {[Enabled |-> FALSE, WithCooldown |-> FALSE]}]

\* one of the four configuration checks is about to be called
InitPrepare ==
    \/ /\ \E c \in ImportConfigs : ImportStart(c)
       /\ AMIIdle /\ RootIdle /\ BuilderIdle /\ MountIdle
    \/ /\ \E c \in PrepareAMIConfigs : \E r \in {Nil, "us-east-1"} : AMIStart(c, r)
       /\ ImportIdle /\ RootIdle /\ BuilderIdle /\ MountIdle
    \/ /\ \E c \in RootBlockDevices : RootStart(c)
       /\ AMIIdle /\ ImportIdle /\ BuilderIdle /\ MountIdle
    \/ /\ \E c \in BuilderConfigs : BuilderStart(c)
       /\ AMIIdle /\ ImportIdle /\ RootIdle /\ MountIdle

\* the configuration checks
NextPrepare ==
    \/ PPConfigure
    \/ AMIConfigPrepare
    \/ RootBlockDevicePrepare
    \/ BuilderPrepare

----------------------------------------------------------------------------
(* Specifications *)

\* the post-processor is not in use
PPIdle ==
    /\ cfg = CHOOSE c \in Configs : Options(c) = {} /\ c.Name = "" /\ Len(c.Tags) = 0
                                    /\ ~c.SkipClean
    /\ ppc = "start"
    /\ ppCtx = FALSE
    /\ phases = <<>>
    /\ calls = {}
    /\ tries = 0
    /\ fails = 0
    /\ lastErr = ""
    /\ lost = 0
    /\ tasks = 0
    /\ taskId = 0
    /\ okPhases = {}
    /\ polls = 0
    /\ latePolls = 0
    /\ cancelIn = ""
    /\ createdami = ""
    /\ applied = {}
    /\ presult = [artifact |-> NoArtifact, err |-> NoErr]
    /\ remote = NoReport
    /\ destroyed = {}
    /\ modCalls = 0
    /\ targets = {}

\* the polling configuration is not in use
PollIdle ==
    /\ w = [MaxAttempts |-> 0, DelaySeconds |-> 0]
    /\ environ = [AWS_POLL_DELAY_SECONDS |-> Unset, AWS_TIMEOUT_SECONDS |-> Unset,
                  AWS_MAX_ATTEMPTS |-> Unset]
    /\ given = [w |-> w, environ |-> environ]
    /\ logged = <<>>
    /\ logCalls = <<>>
    /\ waiterOpts = <<>>

\* no configuration check of Configure, RootBlockDevice or Builder is in use
PrepareIdle == ImportIdle /\ RootIdle /\ BuilderIdle /\ MountIdle

\* the ebsvolume builder runs one build
InitBuild == InitRun /\ PPIdle /\ PollIdle /\ AMIIdle /\ PrepareIdle

SpecRun == InitBuild /\ [][NextRun]_vars

\* the ebsvolume builder runs one build of one configuration
InitTenancy ==
    /\ \E c \in RunConfigs : RunStart(c)
    /\ PPIdle /\ PollIdle /\ AMIIdle /\ PrepareIdle

SpecTenancy == InitTenancy /\ [][NextRun]_vars

\* the import post-processor processes one artifact
InitImport == InitPP /\ InitRun /\ PollIdle /\ AMIIdle /\ PrepareIdle

SpecPP == InitImport /\ [][NextPP]_vars

\* the polling configuration is logged and resolved
InitPolling == InitPoll /\ InitRun /\ PPIdle /\ AMIIdle /\ PrepareIdle

SpecPolling == InitPolling /\ [][NextPoll]_vars

\* AMIConfig.Prepare validates an ami_name
InitName == InitAMIName /\ InitRun /\ PPIdle /\ PollIdle /\ PrepareIdle

SpecAMIName == InitName /\ [][NextAMI]_vars

\* AMIConfig.Prepare validates a kms_key_id
InitKms == InitAMIKms /\ InitRun /\ PPIdle /\ PollIdle /\ PrepareIdle

SpecAMIKms == InitKms /\ [][NextAMI]_vars

\* AMIConfig.Prepare is called on one configuration of regions and keys
InitRegions == InitAMIRegions /\ InitRun /\ PPIdle /\ PollIdle /\ PrepareIdle

SpecAMIRegions == InitRegions /\ [][NextAMIRegions]_vars

\* one configuration check is called on one configuration
InitChecks == InitPrepare /\ InitRun /\ PPIdle /\ PollIdle

SpecPrepare == InitChecks /\ [][NextPrepare]_vars

\* the runner runs the steps of one chroot build
InitChroot ==
    /\ \E c \in MountConfigs : MountStart(c)
    /\ InitRun /\ PPIdle /\ PollIdle /\ AMIIdle /\ ImportIdle /\ RootIdle /\ BuilderIdle

SpecMount == InitChroot /\ [][NextMount]_vars

----------------------------------------------------------------------------
(* Properties of the ebsvolume Builder.Run pipeline (checked under SpecRun) *)

\* runner.Run has returned
RunnerReturned == bpc = "runnerDone" \/ (bpc = "done" /\ ran # <<>>)

NoDuplicates(s) == \A i, j \in 1..Len(s) : i # j => s[i] # s[j]

\* C1 as stated: when runner.Run has returned, if step i is the step whose Run
\* returned Halt then Cleanup was invoked exactly once for each of the steps 1..i, in
\* the order i, i-1, ..., 1, and for none of the steps i+1..n; when no step halted,
\* Cleanup was invoked for all n steps in reverse order.
C1_AsStated ==
    RunnerReturned =>
        /\ NoDuplicates(cleaned)
        /\ IF haltedAt # 0
           THEN cleaned = Reverse(SubSeq(steps, 1, haltedAt))
           ELSE cleaned = Reverse(steps)

\* C1 amended: at every moment the Cleanups invoked so far are the first ones of the
\* reverse of the steps that ran, and no Cleanup is invoked during the forward pass;
\* when runner.Run has returned, Cleanup was invoked exactly once for each step that
\* ran and for no other step. The steps that ran are 1..i when step i's Run returned
\* Halt, 1..i when the forward pass stopped after step i because the context
\* was cancelled, and all n steps when no step halted and no cancellation stopped the
\* forward pass.
C1_CleanupReverse ==
    /\ Len(cleaned) <= Len(ran)
    /\ cleaned = SubSeq(Reverse(ran), 1, Len(cleaned))
    /\ bpc = "forward" => cleaned = <<>>
    /\ RunnerReturned =>
        /\ NoDuplicates(cleaned)
        /\ cleaned = Reverse(SubSeq(steps, 1, Len(ran)))
        /\ Range(cleaned) \cap Range(SubSeq(steps, Len(ran) + 1, Len(steps))) = {}
        /\ haltedAt # 0 => Len(ran) = haltedAt
        /\ (haltedAt = 0 /\ stoppedBy = "none") => Len(ran) = Len(steps)
        /\ stoppedBy = "cancel" => Len(ran) \in 1..Len(steps)

\* a run in which the third step halted and the unwinding has finished
C1_Witness ==
    bpc = "runnerDone" /\ haltedAt = 3 /\ Len(cleaned) = 3 /\ cleaned[1] = "StepKeyPair"

\* C2: at any moment at most one Run or Cleanup is executing, the steps whose Run was
\* invoked are the first ones of the step list in its order, and a Run of a step other
\* than the first is executing only if the previous Run returned Continue and the
\* runner then saw no cancellation.
C2_Sequential ==
    /\ Cardinality(executing) <= 1
    /\ Len(ran) <= Len(steps)
    /\ ran = SubSeq(steps, 1, Len(ran))
    /\ \A inv \in executing :
        (inv[1] = "Run" /\ inv[2] > 1) =>
            /\ lastAction = "continue"
            /\ stoppedBy = "none"
            /\ inv[2] = Len(ran)

\* the second step's Run is executing
C2_Witness == executing = {<<"Run", 2>>} /\ Len(ran) = 2

\* C3: a step that halts has stored its error under "error"; Builder.Run has neither
\* a result nor read the state bag while runner.Run is executing, and reads it only
\* once every Cleanup of the unwinding has returned; when "error" is present it
\* returns a nil artifact and exactly the stored error.
C3_ErrorAfterCleanup ==
    /\ haltedAt # 0 => (GetOk(bag, "error") /\ bag["error"] = steps[haltedAt])
    /\ bpc \in {"forward", "unwind"} => (bresult = NoResult /\ readKeys = {})
    /\ readKeys # {} => (executing = {} /\ cleaned = Reverse(ran))
    /\ (bpc = "done" /\ GetOk(bag, "error")) =>
        /\ bresult.kind = "error"
        /\ ~bresult.artifact.present
        /\ bresult.err = bag["error"]

\* Builder.Run has returned the error the second step stored
C3_Witness ==
    /\ bpc = "done"
    /\ haltedAt = 2
    /\ bresult.err = "StepNetworkInfo"
    /\ cleaned = <<"StepNetworkInfo", "StepSourceAMIInfo">>

\* C4: when the forward pass was stopped by a Halt or by a cancellation, Builder.Run
\* returns no Artifact and reads neither "ebsvolumes" nor "ebssnapshots".
C4_ArtifactOnlyOnSuccess ==
    (bpc = "done" /\ stoppedBy # "none") =>
        /\ bresult.kind # "artifact"
        /\ ~bresult.artifact.present
        /\ readKeys \cap {"ebsvolumes", "ebssnapshots"} = {}

----------------------------------------------------------------------------
(* Properties of the import PostProcess (checked under SpecPP) *)

\* C5: once the context is cancelled while PostProcess is suspended in a waiter, at
\* most one more poll is made.
C5_CancelStopsPolling == cancelIn \in {"poll", "copywait"} => latePolls <= 1

\* C6: when the context is cancelled between two ImportImage attempts, or during an
\* attempt other than the first, PostProcess never gets past the retry and ends with
\* "Failed to start import" carrying the cancellation.
C6_CancelStopsRetry ==
    cancelIn \in {"retry", "importing"} =>
        /\ ppc \in {"retry", "importing", "done"}
        /\ ppc = "done" =>
            /\ presult.err.msg = "Failed to start import"
            /\ presult.err.cause = CtxCanceled

\* C7: when ImportImage succeeded after k failures, k < 11, it was invoked k+1 times
\* and import_start holds the id of the task that attempt started; when the retry
\* ended on an ImportImage error, ImportImage was invoked 11 times, all failed, the
\* last error is the one reported, and no later phase was started.
C7_RetryCount ==
    /\ tries <= 11
    /\ ppc = "started" =>
        /\ fails < 11
        /\ tries = fails + 1
        /\ taskId = tasks
        /\ taskId >= 1
    /\ (ppc = "done" /\ presult.err.msg = "Failed to start import"
            /\ presult.err.cause # CtxCanceled) =>
        /\ tries = 11
        /\ fails = 11
        /\ presult.err.cause = lastErr
        /\ phases = <<"upload", "import">>
        /\ calls = {"Upload", "ImportImage"}
        /\ ~presult.artifact.present

\* ImportImage failed ten times and then succeeded
C7_Witness == ppc = "started" /\ fails = 10 /\ tries = 11 /\ taskId = 1

\* C8: within one PostProcess at most one import task is started.
C8_SingleImportTask == tasks <= 1

PhaseRank(ph) ==
    CASE ph = "upload" -> 1
      [] ph = "import" -> 2
      [] ph = "poll" -> 3
      [] ph = "result" -> 4
      [] ph = "rename" -> 5
      [] ph = "tag" -> 6
      [] ph = "modify" -> 7
      [] ph = "cleanup" -> 8

\* the phases were started in the fixed order, each after the one started before it
\* had succeeded, and an error ends PostProcess without an artifact
PhaseOrder ==
    /\ \A i \in 1..(Len(phases) - 1) :
        /\ PhaseRank(phases[i]) < PhaseRank(phases[i + 1])
        /\ phases[i] \in okPhases
    /\ presult.err # NoErr => (ppc = "done" /\ ~presult.artifact.present)
    /\ ppc = "done" => (presult.err # NoErr \/ presult.artifact.present)

\* C9: the phases run in the fixed order, each only after the earlier ones succeeded,
\* the first failure ends PostProcess with a nil artifact and an error, and every
\* error raised after the import started names the task id or the AMI/resource id.
C9_PhasesAndErrors ==
    /\ PhaseOrder
    /\ (presult.err # NoErr /\ "import" \in okPhases) => presult.err.names # {}

\* C10: no import task is cancelled; DeleteObject is called only as the last phase,
\* with skip_clean false, after import, rename, tagging and attribute modification
\* have all succeeded; no failure before that phase is followed by a DeleteObject.
C10_NoRollback ==
    /\ "CancelImportTask" \notin calls
    /\ cfg.SkipClean => "DeleteObject" \notin calls
    /\ "DeleteObject" \in calls =>
        /\ ppc = "done"
        /\ phases[Len(phases)] = "cleanup"
        /\ {"upload", "import", "poll", "result"} \subseteq okPhases
        /\ cfg.Name # "" => ("rename" \in okPhases /\ createdami = "ami-copy")
        /\ Len(cfg.Tags) > 0 => "tag" \in okPhases
        /\ applied = Options(cfg)
    /\ (presult.err # NoErr /\ presult.err.msg # "Failed to delete") =>
        "DeleteObject" \notin calls

\* an attribute modification failed after upload and import, with skip_clean false
C10_Witness ==
    /\ ppc = "done"
    /\ presult.err.msg = "Error modifying AMI attributes"
    /\ ~cfg.SkipClean
    /\ {"upload", "import"} \subseteq okPhases
    /\ "DeleteObject" \notin calls

LateFailure ==
    /\ ppc = "done"
    /\ presult.err.msg \in {"Failed to retrieve details for AMI", "AMI has no images",
                             "Failed to add tags to resources",
                             "Error modifying AMI attributes"}

\* C12: when tagging or an attribute modification fails, the AMI exists, PostProcess
\* returns an error and no artifact, and the AMI it was working on was not handed to
\* DestroyAMIs; no DeregisterImage or DeleteSnapshot is called directly; the only AMI
\* ever handed to DestroyAMIs is the imported (intermediary) one, after the copy made
\* by a rename has become available.
C12_NoDeregistration ==
    /\ LateFailure =>
        /\ ~presult.artifact.present
        /\ presult.err # NoErr
        /\ createdami # ""
        /\ createdami \notin destroyed
    /\ calls \cap {"DeregisterImage", "DeleteSnapshot"} = {}
    /\ destroyed \subseteq {"ami-imported"}
    /\ destroyed # {} =>
        /\ cfg.Name # ""
        /\ {"CopyImage", "DestroyAMIs"} \subseteq calls
        /\ "copy" \in okPhases
    /\ "DestroyAMIs" \in calls => destroyed # {}

\* tagging failed on the renamed AMI after the intermediary one was destroyed
C12_Witness ==
    /\ LateFailure
    /\ presult.err.msg = "Failed to add tags to resources"
    /\ createdami = "ami-copy"
    /\ destroyed = {"ami-imported"}

\* the names an attribute-modification entry can have
AttributeNames ==
    {"description", "groups", "users", "ami org arns", "ami ou arns", "ami imds support"}

\* the configuration field behind an entry name is non-empty
FieldNonEmpty(c, name) ==
    CASE name = "description" -> c.Description # ""
      [] name = "groups" -> c.Groups # <<>>
      [] name = "users" -> c.Users # <<>>
      [] name = "ami org arns" -> c.OrgArns # <<>>
      [] name = "ami ou arns" -> c.OuArns # <<>>
      [] name = "ami imds support" -> c.AMIIMDSSupport # ""

\* PostProcess got past the attribute modifications
ModifyDone == ppc = "cleanup" \/ (ppc = "done" /\ "modify" \in okPhases)

\* C13: the attribute-modification map has an entry named n exactly when the field
\* behind n is non-empty; ModifyImageAttribute is called only for entries of the map,
\* once per entry; with only ami_users set the map is exactly {users}; with no field
\* set ModifyImageAttribute is never called; when every call succeeded the number of
\* calls is the number of non-empty fields.
C13_OptionsMap ==
    /\ \A n \in AttributeNames : n \in Options(cfg) <=> FieldNonEmpty(cfg, n)
    /\ Options(cfg) \subseteq AttributeNames
    /\ applied \subseteq Options(cfg)
    /\ modCalls \in {Cardinality(applied), Cardinality(applied) + 1}
    /\ modCalls = Cardinality(applied) + 1 =>
        presult.err.msg = "Error modifying AMI attributes"
    /\ (\A n \in AttributeNames : FieldNonEmpty(cfg, n) <=> n = "users") =>
        /\ Options(cfg) = {"users"}
        /\ modCalls <= 1
    /\ (\A n \in AttributeNames : ~FieldNonEmpty(cfg, n)) =>
        /\ modCalls = 0
        /\ "ModifyImageAttribute" \notin calls
    /\ (ModifyDone \/ presult.artifact.present) =>
        modCalls = Cardinality({n \in AttributeNames : FieldNonEmpty(cfg, n)})

\* ami_users and ami_description are set and both modifications succeeded
C13_Witness ==
    /\ presult.artifact.present
    /\ cfg.Users # <<>>
    /\ cfg.Description # ""
    /\ applied = {"users", "description"}
    /\ modCalls = 2

----------------------------------------------------------------------------
(* Properties of the polling configuration (checked under SpecPolling) *)

C15_AsStated == \A i \in 1..Len(logCalls) : logCalls[i] = 1

\* the message that belongs to the polling inputs, if any
ExpectedMessage(cw, env) ==
    LET maxGiven == cw.MaxAttempts # 0 \/ env.AWS_MAX_ATTEMPTS.set
        delayGiven == cw.DelaySeconds # 0 \/ env.AWS_POLL_DELAY_SECONDS.set
        timeoutGiven == env.AWS_TIMEOUT_SECONDS.set
    IN  IF timeoutGiven /\ maxGiven /\ ~delayGiven
        THEN "WARNING: both set, AWS_TIMEOUT_SECONDS discarded, 2-second delay"
        ELSE IF timeoutGiven /\ maxGiven
        THEN "WARNING: both set, AWS_TIMEOUT_SECONDS discarded"
        ELSE IF timeoutGiven
        THEN "WARNING: AWS_TIMEOUT_SECONDS is deprecated"
        ELSE IF ~maxGiven /\ ~delayGiven
        THEN "INFO: no overrides set"
        ELSE ""

\* C15 amended: every call of LogEnvOverrideWarnings wrote at most one message:
\* exactly one, the message of the path taken, when AWS_TIMEOUT_SECONDS is set or when
\* none of the five inputs is set, and none when a max-attempts or poll-delay value
\* is set and AWS_TIMEOUT_SECONDS is not.
C15_AtMostOneMessage ==
    LET expected == ExpectedMessage(given.w, given.environ)
    IN  /\ \A i \in 1..Len(logCalls) : logCalls[i] = IF expected = "" THEN 0 ELSE 1
        /\ Len(logged) = IF expected = "" THEN 0 ELSE Len(logCalls)
        /\ \A j \in 1..Len(logged) : logged[j] = expected

\* one call with only AWS_TIMEOUT_SECONDS set wrote the deprecation warning
C15_Witness ==
    /\ logCalls = <<1>>
    /\ logged = <<"WARNING: AWS_TIMEOUT_SECONDS is deprecated">>
    /\ ~given.environ.AWS_MAX_ATTEMPTS.set

\* C16: whatever the polling inputs and however often LogEnvOverrideWarnings was
\* called, MaxAttempts and DelaySeconds of the config and the three environment
\* variables are what they were before the first call, and every resolution of the
\* waiter parameters is the one the untouched inputs give.
C16_LogIsInformational ==
    /\ w = given.w
    /\ environ = given.environ
    /\ \A i \in 1..Len(waiterOpts) :
        /\ waiterOpts[i] = WaiterOptions(given.w, given.environ)
        /\ waiterOpts[i] = waiterOpts[1]

\* only AWS_TIMEOUT_SECONDS is set, the function was called twice, then a wait
\* resolved its parameters
C16_Witness ==
    /\ Len(logCalls) = 2
    /\ Len(waiterOpts) = 1
    /\ given.environ.AWS_TIMEOUT_SECONDS.set
    /\ ~given.environ.AWS_POLL_DELAY_SECONDS.set
    /\ given.w.DelaySeconds = 0

----------------------------------------------------------------------------
(* Properties of AMIConfig.Prepare *)

\* Prepare returned the error with the message m
Reported(m) == \E i \in 1..Len(amiErrs) : amiErrs[i].msg = m

\* the characters an ami_name may contain
NameCharacters ==
    {"a", "b", "c", "d", "e", "f", "g", "h", "i", "j", "k", "l", "m", "n", "o", "p", "q",
     "r", "s", "t", "u", "v", "w", "x", "y", "z",
     "A", "B", "C", "D", "E", "F", "G", "H", "I", "J", "K", "L", "M", "N", "O", "P", "Q",
     "R", "S", "T", "U", "V", "W", "X", "Y", "Z",
     "0", "1", "2", "3", "4", "5", "6", "7", "8", "9",
     "(", ")", "[", "]", " ", ".", "/", "-", "'", "@", "_"}

After(s, n) == SubSeq(s, n + 1, Len(s))

LowercaseLetters ==
    {"a", "b", "c", "d", "e", "f", "g", "h", "i", "j", "k", "l", "m", "n", "o", "p", "q",
     "r", "s", "t", "u", "v", "w", "x", "y", "z"}

UppercaseLetters ==
    {"A", "B", "C", "D", "E", "F", "G", "H", "I", "J", "K", "L", "M", "N", "O", "P", "Q",
     "R", "S", "T", "U", "V", "W", "X", "Y", "Z"}

DecimalDigits == {"0", "1", "2", "3", "4", "5", "6", "7", "8", "9"}

HexDigits == DecimalDigits \cup {"a", "b", "c", "d", "e", "f"}

\* a key id: lowercase hex digits and dashes, starting with a hex digit, 2 or more
KeyIdShape(s) ==
    /\ Len(s) >= 2
    /\ s[1] \in HexDigits
    /\ \A i \in 1..Len(s) : s[i] \in HexDigits \cup {"-"}

\* a multi-region key id: "mrk-" followed by a key id
MrkShape(s) ==
    /\ Len(s) > 4
    /\ SubSeq(s, 1, 4) = <<"m", "r", "k", "-">>
    /\ KeyIdShape(After(s, 4))

\* an alias: "alias/" followed by one or more of letters, digits, ':', '/', '_', '-'
AliasShape(s) ==
    /\ Len(s) > 6
    /\ SubSeq(s, 1, 6) = <<"a", "l", "i", "a", "s", "/">>
    /\ \A i \in 7..Len(s) :
        s[i] \in LowercaseLetters \cup UppercaseLetters \cup DecimalDigits
                 \cup {":", "/", "_", "-"}

\* a partition: aws, aws-xx or aws-xx-gov
PartitionShape(s) ==
    /\ Len(s) \in {3, 6, 10}
    /\ SubSeq(s, 1, 3) = <<"a", "w", "s">>
    /\ Len(s) >= 6 => (s[4] = "-" /\ s[5] \in LowercaseLetters /\ s[6] \in LowercaseLetters)
    /\ Len(s) = 10 => After(s, 6) = <<"-", "g", "o", "v">>

\* a region: xx-name-d or xx-gov-name-d
RegionShape(s) ==
    /\ Len(s) >= 6
    /\ s[1] \in LowercaseLetters /\ s[2] \in LowercaseLetters /\ s[3] = "-"
    /\ s[Len(s)] \in DecimalDigits /\ s[Len(s) - 1] = "-"
    /\ LET middle == SubSeq(s, 4, Len(s) - 2)
           letters(m) == Len(m) >= 1 /\ \A i \in 1..Len(m) : m[i] \in LowercaseLetters
       IN  \/ letters(middle)
           \/ /\ Len(middle) > 4
              /\ SubSeq(middle, 1, 4) = <<"g", "o", "v", "-">>
              /\ letters(After(middle, 4))

\* an AWS KMS ARN: arn:<partition>:kms:<optional region>:<12-digit account>: followed
\* by "key/" and a key id (plain or multi-region), or by an alias
ArnShape(s) ==
    LET colons == {i \in 1..Len(s) : s[i] = ":"}
        nth(n) == CHOOSE i \in colons : Cardinality({j \in colons : j <= i}) = n
        field(n) == SubSeq(s, (IF n = 1 THEN 0 ELSE nth(n - 1)) + 1, nth(n) - 1)
    IN  /\ Cardinality(colons) >= 5
        /\ field(1) = <<"a", "r", "n">>
        /\ PartitionShape(field(2))
        /\ field(3) = <<"k", "m", "s">>
        /\ field(4) = <<>> \/ RegionShape(field(4))
        /\ Len(field(5)) = 12 /\ \A i \in 1..12 : field(5)[i] \in DecimalDigits
        /\ LET tail == After(s, nth(5))
           IN  \/ /\ Len(tail) > 4
                  /\ SubSeq(tail, 1, 4) = <<"k", "e", "y", "/">>
                  /\ KeyIdShape(After(tail, 4)) \/ MrkShape(After(tail, 4))
               \/ AliasShape(tail)

----------------------------------------------------------------------------
(* Collected configuration errors *)

\* the message m when the check is violated
Violated(violated, m) == IF violated THEN {m} ELSE {}

\* the boot mode Configure works with for the configuration g
EffectiveBootMode(g) ==
    IF g.BootMode # "" THEN g.BootMode
    ELSE IF g.Architecture = "arm64" THEN "uefi" ELSE "legacy-bios"

\* the checks of Configure the configuration g violates
ImportViolations(g) ==
    Violated(g.BootMode # "" /\ ~g.BootModeValid, "IsValidBootMode")
    \cup Violated(g.S3Key = "{{bad", "Error parsing s3_key_name template")
    \cup Range(g.AccessErrs)
    \cup Violated(g.S3Bucket = "", "s3_bucket_name must be set")
    \cup Violated(g.Format \notin {"", "ova", "raw", "vmdk", "vhd", "vhdx"}, "invalid format")
    \cup Violated(g.Platform = "" /\ EffectiveBootMode(g) = "uefi",
                  "invalid platform, must be set for uefi")
    \cup Violated(g.Platform \notin {"", "windows", "linux"}, "invalid platform")
    \cup Violated(g.S3Encryption \notin {"", "AES256", "aws:kms"},
                  "invalid s3 encryption format")
    \cup Violated(EffectiveBootMode(g) \notin {"legacy-bios", "uefi"}, "invalid boot mode")
    \cup Violated(g.Architecture = "arm64" /\ EffectiveBootMode(g) # "uefi",
                  "invalid boot mode for arm64")
    \cup Violated(g.AMIIMDSSupport \notin {"", "v2.0"},
                  "The only valid imds_support values are")

\* the checks of AMIConfig.Prepare the config g violates
AMIViolations(g) ==
    LET keys == g.AMIRegionKMSKeyIDs
        someKey == g.AMIKmsKeyId # <<>> \/ \E r \in DOMAIN keys : keys[r] # <<>>
        emptyKey == \E r \in DOMAIN keys : keys[r] = <<>>
        noKey == g.AMIKmsKeyId = <<>> /\ DOMAIN keys = {}
        encrypted == g.AMIEncryptBootVolume = "true"
        shared == g.AMIUsers # <<>> \/ g.AMIOrgArns # <<>> \/ g.AMIOuArns # <<>>
    IN  Range(g.TagErrs)
        \cup Violated(g.AMIName = <<>>, "ami_name must be specified")
        \cup Violated(\E r \in DOMAIN keys : r \notin Range(g.AMIRegions),
                      "Region is in region_kms_key_ids but not in ami_regions")
        \cup Violated(DOMAIN keys # {} /\ \E r \in Range(g.AMIRegions) : r \notin DOMAIN keys,
                      "Region is in ami_regions but not in region_kms_key_ids")
        \cup Violated(shared /\ noKey /\ encrypted,
                      "Cannot share AMI encrypted with default KMS key")
        \cup Violated(shared /\ emptyKey,
                      "Cannot share AMI encrypted with default KMS key for other regions")
        \cup Violated(someKey /\ ~encrypted, "encrypt_boot must also be true")
        \cup Violated(g.AMIKmsKeyId = NotAKey \/ \E r \in DOMAIN keys : keys[r] = NotAKey,
                      "is not a valid KMS Key Id")
        \cup Violated(g.SnapshotUsers # <<>> /\ noKey /\ encrypted,
                      "Cannot share snapshot encrypted with default KMS key, see docs")
        \cup Violated(g.SnapshotUsers # <<>> /\ emptyKey,
                      "Cannot share snapshot encrypted with default KMS key")
        \cup Violated(Len(g.AMIName) < 3 \/ Len(g.AMIName) > 128,
                      "ami_name must be between 3 and 128 characters long")
        \cup Violated(\E i \in 1..Len(g.AMIName) : g.AMIName[i] \notin NameCharacters,
                      "AMIName should only contain")
        \cup Violated(g.AMIIMDSSupport \notin {"", "v2.0"},
                      "The only valid imds_support values are")
        \cup Violated(g.DeprecationTime \notin {"", "2030-01-02T03:04:05Z"},
                      "deprecate_at is not a valid time")

\* the checks of RootBlockDevice.Prepare the device g violates
RootViolations(g) ==
    Violated(g.SourceDeviceName = "",
             "source_device_name for the root_device must be specified")
    \cup Violated(g.DeviceName = "", "device_name for the root_device must be specified")
    \cup Violated(g.VolumeType = "gp2" /\ g.IOPS # 0,
                  "iops may not be specified for a gp2 volume")
    \cup Violated(g.IOPS < 0, "iops must be greater than 0")
    \cup Violated(g.VolumeSize < 0, "volume_size must be greater than 0")
    \cup Violated(g.ImageMethod \notin {"", "create", "register"},
                  "image_method must be 'create', 'register' or an empty string")

\* the checks of the ebsvolume Builder.Prepare the configuration g violates
BuilderViolations(g) ==
    Range(g.TagErrs) \cup Range(g.AccessErrs) \cup Range(g.RunErrs)
    \cup Range(g.VolumeErrs)
    \cup Violated(g.IsSpot /\ (g.AMIENASupport = "true" \/ g.AMISriovNetSupport),
                  "Spot instances do not support modification")
    \cup Violated(\E i \in 1..Len(g.VolumeMappings) :
                      /\ g.VolumeMappings[i].SnapshotDescription # ""
                      /\ ~g.VolumeMappings[i].SnapshotVolume,
                  "All ebs_volumes blocks setting snapshot_description must also set snapshot_volume")

\* C19: configuration errors are collected, not fail-fast: once decoding has
\* succeeded, Configure returns one aggregate holding an error for every violated
\* check, whatever the outcome of the earlier checks, and nil iff no check is
\* violated; AMIConfig.Prepare, RootBlockDevice.Prepare and the ebsvolume
\* Builder.Prepare accumulate their errors the same way
C19_ErrorsCollected ==
    /\ impPc = "done" /\ ~impGiven.DecodeFails =>
        /\ Range(impResult.errs) = ImportViolations(impGiven)
        /\ impResult.kind = (IF ImportViolations(impGiven) = {} THEN "nil" ELSE "errors")
    /\ amiPc = "done" =>
        {amiErrs[i].msg : i \in 1..Len(amiErrs)} = AMIViolations(amiGiven)
    /\ rootPc = "done" => Range(rootErrs) = RootViolations(rootGiven)
    /\ bldPc = "done" /\ ~bldGiven.DecodeFails =>
        /\ Range(bldResult.errs) = BuilderViolations(bldGiven)
        /\ bldResult.kind = (IF BuilderViolations(bldGiven) = {} THEN "nil" ELSE "errors")

\* Configure returned an aggregate with the errors of five violated checks, the
\* first and the last of them included
C19_Witness ==
    /\ impPc = "done"
    /\ impResult.kind = "errors"
    /\ impGiven.BootMode = "bios"
    /\ ~impGiven.BootModeValid
    /\ impGiven.S3Bucket = ""
    /\ impGiven.Format = "iso"
    /\ impGiven.Platform = "mac"
    /\ impGiven.AMIIMDSSupport = "v1.0"
    /\ {"IsValidBootMode", "s3_bucket_name must be set", "invalid format",
        "invalid platform", "The only valid imds_support values are"}
           \subseteq Range(impResult.errs)

----------------------------------------------------------------------------
(* Tenancy of an on-demand launch *)

\* C20: for an on-demand launch the tenancy given to the instance step is the
\* placement tenancy when that is non-empty, even if the legacy top-level tenancy
\* is set too, otherwise the legacy tenancy, and the empty string when both are
\* empty
C20_TenancyResolution ==
    instanceStep.kind = "StepRunSourceInstance" =>
        /\ ~runConfig.IsSpot
        /\ runConfig.PlacementTenancy # "" =>
               instanceStep.Tenancy = runConfig.PlacementTenancy
        /\ runConfig.PlacementTenancy = "" => instanceStep.Tenancy = runConfig.Tenancy

\* an on-demand instance step was built from a configuration that sets both
\* tenancies, to different values
C20_Witness ==
    /\ instanceStep.kind = "StepRunSourceInstance"
    /\ runConfig.PlacementTenancy = "host"
    /\ runConfig.Tenancy = "dedicated"
    /\ instanceStep.Tenancy = "host"

----------------------------------------------------------------------------
(* StepManualMountCommand *)

\* the ui.Error entries of a ui output
UiErrors(ui) == SelectSeq(ui, LAMBDA e : e.kind = "error")

\* the ui shows that an unmount was begun
UnmountBegun == \E i \in 1..Len(mUi) : mUi[i] = Say("Unmounting the root device...")

\* C21: cleanup errors never become fatal: Cleanup of StepManualMountCommand stores
\* nothing in the state bag (no "error" in particular) and reports nothing but
\* through the ui, the cleanups of the remaining steps run after it, and when the
\* mount path was never set (Run halted, or Command was empty) it performs no
\* unmount action at all
C21_CleanupNeverFatal ==
    /\ [][StepManualMountCommandCleanup =>
             /\ mBag' = mBag
             /\ mGen' = mGen
             /\ mpc' \in {"unwind", "done"}
             /\ Len(UiErrors(mUi')) = Len(UiErrors(mUi))]_vars
    /\ [](mpc = "done" => mCleaned = Reverse(mRan))
    /\ [](mAction = "halt" \/ mCfg.Command = "" => mountPath = EmptyPath)
    /\ [](mountPath = EmptyPath => ~UnmountBegun)

\* a build in which the step after StepManualMountCommand halted: the mounted step
\* was cleaned up, and the step before it after that
C21_Witness ==
    /\ mpc = "done"
    /\ mountPath # EmptyPath
    /\ UnmountBegun
    /\ mBag["error"] = [err |-> "StepAfter"]
    /\ mCleaned = <<"StepAfter", "StepManualMountCommand", "StepBefore">>

\* the state bag holds the value v under the key k
Holds(k, v) == GetOk(mBag, k) /\ mBag[k] = v

\* Run of StepManualMountCommand has returned
MountRan == mAction # "none"

\* the mount path renders, and can be made absolute
MountPathRenders ==
    \A i \in 1..Len(mCfg.MountPath.segs) :
        mCfg.MountPath.segs[i] \in {"mnt", "{{.Device}}"}

MountPathAbsolute == mCfg.MountPath.abs \/ ~mCfg.GetwdFails

\* C30 as stated: Halt exactly when Run stored "error", and then neither
\* "mount_path" nor "mount_device_cleanup" is published; with an empty Command,
\* Continue and nothing published; with a non-empty Command whose mount path
\* renders, Continue after publishing "mount_path", MountPath and
\* "mount_device_cleanup", all holding the same absolute path
C30_AsStated ==
    MountRan =>
        /\ mAction = "halt" <=> "error" \in mPut
        /\ mAction = "halt" => mPut \cap {"mount_path", "mount_device_cleanup"} = {}
        /\ mCfg.Command = "" => mAction = "continue" /\ mPut = {} /\ mGen = <<>>
        /\ mCfg.Command # "" /\ MountPathRenders =>
            /\ mAction = "continue"
            /\ mountPath.abs
            /\ Holds("mount_path", mountPath)
            /\ mGen = [k \in {"MountPath"} |-> mountPath]
            /\ Holds("mount_device_cleanup", mountPath)

\* C30: Halt exactly when Run stored "error", and then neither "mount_path" nor
\* "mount_device_cleanup" is published; with an empty Command, Continue and
\* nothing published; with a non-empty Command whose mount path renders and can be
\* made absolute, Continue after publishing "mount_path" and MountPath, both
\* holding the same absolute path, and "mount_device_cleanup", holding the step
C30_RunPublishes ==
    MountRan =>
        /\ mAction = "halt" <=> "error" \in mPut
        /\ mAction = "halt" => mPut \cap {"mount_path", "mount_device_cleanup"} = {}
        /\ mCfg.Command = "" => mAction = "continue" /\ mPut = {} /\ mGen = <<>>
        /\ mCfg.Command # "" /\ MountPathRenders /\ MountPathAbsolute =>
            /\ mAction = "continue"
            /\ mountPath.abs
            /\ Holds("mount_path", mountPath)
            /\ mGen = [k \in {"MountPath"} |-> mountPath]
            /\ Holds("mount_device_cleanup", StepRef)
        /\ mCfg.Command # "" /\ MountPathRenders /\ ~MountPathAbsolute =>
            mAction = "halt"

\* Run was given a relative mount path and published the absolute one
C30_Witness ==
    /\ MountRan
    /\ mCfg.Command # ""
    /\ ~mCfg.MountPath.abs
    /\ mCfg.NVMEDevicePath # EmptyPath
    /\ mAction = "continue"
    /\ Holds("mount_path", Path(TRUE, <<"work", "mnt", "nvme1n1">>))
    /\ Holds("mount_device_cleanup", StepRef)

----------------------------------------------------------------------------
(* Regions and KMS keys of an AMI config *)

\* Prepare has returned (and prepareRegions was perhaps applied once more)
Prepared == amiPc \in {"done", "again"}

\* where the region r is first listed in the list l
FirstListed(l, r) == CHOOSE i \in 1..Len(l) : l[i] = r /\ \A j \in 1..(i - 1) : l[j] # r

\* the errors Prepare returned with the message m
ErrorsWith(m) == SelectSeq(amiErrs, LAMBDA e : e.msg = m)

\* the regions the errors with the message m name
RegionsWith(m) == {ErrorsWith(m)[i].arg : i \in 1..Len(ErrorsWith(m))}

\* C22: after Prepare with a non-empty ami_regions list, AMIRegions contains every
\* originally listed region other than the access configuration's own region
\* exactly once, in order of first occurrence; the build region is dropped with a
\* log line and no error, and a second region preparation leaves the list unchanged
C22_RegionsPrepared ==
    Prepared /\ amiGiven.AMIRegions # <<>> =>
        LET listed == amiGiven.AMIRegions
            kept == amiConfig.AMIRegions
        IN  /\ Range(kept) = Range(listed) \ {accessRegion}
            /\ \A i, j \in 1..Len(kept) : i < j =>
                   /\ kept[i] # kept[j]
                   /\ FirstListed(listed, kept[i]) < FirstListed(listed, kept[j])
            /\ amiLog = (IF accessRegion \in Range(listed) THEN <<accessRegion>> ELSE <<>>)
            /\ amiGiven.AMIRegionKMSKeyIDs = <<>> /\ amiGiven.AMIUsers = <<>>
               /\ amiGiven.AMIOrgArns = <<>> /\ amiGiven.SnapshotUsers = <<>>
               /\ amiGiven.AMIKmsKeyId = <<>> => amiErrs = <<>>

\* prepareRegions was applied twice to a list that names the build region twice
\* and another region twice
C22_Witness ==
    /\ amiPc = "again"
    /\ accessRegion = "us-east-1"
    /\ amiGiven.AMIRegions = <<"us-east-1", "us-west-2", "us-east-1">>
    /\ amiConfig.AMIRegions = <<"us-west-2">>
    /\ amiLog = <<"us-east-1">>

\* C23: when region_kms_key_ids is non-empty, Prepare reports an error for every
\* key of it that is not listed in ami_regions and for every distinct region of
\* ami_regions (the build region included) that is not a key of it, and no
\* region-consistency error exactly when the two sets are equal; when
\* region_kms_key_ids is empty no region-consistency error is reported
C23_RegionsMatchKeys ==
    amiPc = "done" =>
        LET keys == DOMAIN amiGiven.AMIRegionKMSKeyIDs
            listed == Range(amiGiven.AMIRegions)
            notListed == "Region is in region_kms_key_ids but not in ami_regions"
            notKey == "Region is in ami_regions but not in region_kms_key_ids"
        IN  /\ keys # {} =>
                /\ RegionsWith(notListed) = keys \ listed
                /\ RegionsWith(notKey) = listed \ keys
                /\ Len(ErrorsWith(notListed)) = Cardinality(keys \ listed)
                /\ Len(ErrorsWith(notKey)) = Cardinality(listed \ keys)
                /\ ErrorsWith(notListed) \o ErrorsWith(notKey) = <<>> <=> keys = listed
            /\ keys = {} => ErrorsWith(notListed) \o ErrorsWith(notKey) = <<>>

\* the build region is listed twice and has no key, and a key has no region
C23_Witness ==
    /\ amiPc = "done"
    /\ accessRegion = "us-east-1"
    /\ amiGiven.AMIRegions = <<"us-east-1", "us-east-1">>
    /\ DOMAIN amiGiven.AMIRegionKMSKeyIDs = {"us-west-2"}
    /\ RegionsWith("Region is in ami_regions but not in region_kms_key_ids") = {"us-east-1"}
    /\ RegionsWith("Region is in region_kms_key_ids but not in ami_regions") = {"us-west-2"}

\* C24: if either kms_key_id or region_kms_key_ids is set and encrypt_boot is not
\* true, Prepare reports the error "... encrypt_boot must also be true"; this holds
\* for every non-empty region_kms_key_ids map, including one whose values are all
\* the empty string
C24_KeysNeedEncryptBoot ==
    amiPc = "done" =>
        ((amiGiven.AMIKmsKeyId # <<>> \/ DOMAIN amiGiven.AMIRegionKMSKeyIDs # {})
          /\ amiGiven.AMIEncryptBootVolume # "true"
            => ErrorsWith("encrypt_boot must also be true") # <<>>)

\* the AMI is shared, and the snapshot is shared
SharedAMI ==
    amiGiven.AMIUsers # <<>> \/ amiGiven.AMIOrgArns # <<>> \/ amiGiven.AMIOuArns # <<>>

SharedSnapshot == amiGiven.SnapshotUsers # <<>>

\* the entries of region_kms_key_ids whose key id is the empty string
DefaultKeyEntries ==
    {r \in DOMAIN amiGiven.AMIRegionKMSKeyIDs : amiGiven.AMIRegionKMSKeyIDs[r] = <<>>}

FinalAMI == IF cfg.Name # "" THEN "ami-copy" ELSE "ami-imported"

\* the image ids the calls of one API were made with
TargetsOf(api) == {t.ami : t \in {u \in targets : u.api = api}}

\* PostProcess ended on a failure of CopyImage or of the wait for the copy
CopyFailure ==
    /\ ppc = "done"
    /\ presult.err.msg \in {"Error Copying AMI", "Error waiting for AMI"}

\* C26: under ami_name PostProcess renames by copy: CopyImage is called on the imported
\* AMI, the copy is then awaited, and DestroyAMIs is called on the imported AMI only
\* once the copy is available; when CopyImage or the wait fails nothing is
\* deregistered; without ami_name no copy is made. Tagging, every attribute
\* modification and the artifact use the copy's id under ami_name and the import
\* task's image id otherwise.
C26_RenameByCopy ==
    /\ [](/\ cfg.Name = "" => calls \cap {"CopyImage", "DestroyAMIs"} = {}
          /\ TargetsOf("CopyImage") \subseteq {"ami-imported"}
          /\ ppc \in {"copywait", "destroy"} => "CopyImage" \in calls
          /\ CopyFailure => destroyed = {} /\ "DestroyAMIs" \notin calls
          /\ TargetsOf("DescribeImages") \subseteq {FinalAMI}
          /\ TargetsOf("CreateTags") \subseteq {FinalAMI}
          /\ TargetsOf("ModifyImageAttribute") \subseteq {FinalAMI}
          /\ presult.artifact.present => presult.artifact.Amis["region"] = FinalAMI
          /\ (cfg.Name # "" /\ (targets # {} \/ presult.artifact.present)) =>
                (destroyed = {"ami-imported"} \/ ppc \in {"copy", "copywait", "destroy"}
                 \/ CopyFailure))
    /\ [][/\ "copy" \in okPhases' \ okPhases => ppc = "copywait" /\ "CopyImage" \in calls
          /\ "DestroyAMIs" \in calls' \ calls =>
                /\ "copy" \in okPhases
                /\ destroyed' = {"ami-imported"}
                /\ createdami = "ami-imported"
                /\ createdami' \in {"ami-imported", "ami-copy"}]_vars

\* a renamed AMI was tagged, modified and returned under the copy's id
C26_Witness ==
    /\ cfg.Name # ""
    /\ presult.artifact.present
    /\ presult.artifact.Amis["region"] = "ami-copy"
    /\ destroyed = {"ami-imported"}
    /\ TargetsOf("CreateTags") = {"ami-copy"}
    /\ TargetsOf("ModifyImageAttribute") = {"ami-copy"}

\* the entries of the attribute map a ModifyImageAttribute call was made for
Attempted == {t.entry : t \in {u \in targets : u.api = "ModifyImageAttribute"}}

\* PostProcess ended on a failure of an attribute modification
ModifyFailure ==
    /\ ppc = "done"
    /\ presult.err.msg = "Error modifying AMI attributes"

\* C27: attribute modifications are made one entry at a time on the final AMI id; a
\* failed entry leaves the applied ones applied, with no compensating call, and does
\* not keep the remaining entries of the map from being attempted.
C27_IndependentModifications ==
    /\ TargetsOf("ModifyImageAttribute") \subseteq {createdami}
    /\ applied \subseteq Attempted
    /\ Attempted \subseteq Options(cfg)
    /\ modCalls = Cardinality(Attempted)
    /\ "ResetImageAttribute" \notin calls
    /\ ModifyFailure => Attempted = Options(cfg)

\* PostProcess ended on a failure to delete the uploaded object
CleanupFailure ==
    /\ ppc = "done"
    /\ presult.err.msg = "Failed to delete"

\* C28: PostProcess returns an artifact exactly when it returns no error; the artifact
\* maps one region, the session's, to the final AMI id and carries the builder id
\* packer.post-processor.amazon-import; when the uploaded object cannot be deleted
\* PostProcess returns an error and no artifact although the import, the tagging and
\* the attribute modifications it was asked for succeeded.
C28_ArtifactIffNoError ==
    /\ ppc = "done" => (presult.artifact.present <=> presult.err = NoErr)
    /\ ppc # "done" => presult = [artifact |-> NoArtifact, err |-> NoErr]
    /\ presult.artifact.present =>
        /\ DOMAIN presult.artifact.Amis = {"region"}
        /\ presult.artifact.Amis["region"] = createdami
        /\ createdami \in {"ami-imported", "ami-copy"}
        /\ createdami \notin destroyed
        /\ presult.artifact.BuilderIdValue = "packer.post-processor.amazon-import"
    /\ CleanupFailure =>
        /\ ~cfg.SkipClean
        /\ ~presult.artifact.present
        /\ presult.err # NoErr
        /\ "import" \in okPhases
        /\ Len(cfg.Tags) > 0 => "tag" \in okPhases
        /\ applied = Options(cfg)
    /\ cfg.SkipClean => "DeleteObject" \notin calls

\* the object could not be deleted after the AMI was imported, tagged and modified
C28_Witness ==
    /\ CleanupFailure
    /\ ~presult.artifact.present
    /\ {"import", "tag"} \subseteq okPhases
    /\ applied = Options(cfg)
    /\ applied # {}

\* Configure was called and returned nil
Configured == impPc = "done" /\ impResult.kind = "nil"

\* C29: after a Configure that returned nil, Format is one of ova, raw, vmdk, vhd, vhdx
\* (ova when unset), Architecture is non-empty (x86_64 when unset), BootMode is
\* legacy-bios or uefi (when unset: uefi for arm64, legacy-bios otherwise), arm64
\* comes with uefi, uefi comes with platform linux or windows, and Platform is empty,
\* linux or windows; so Configure never returns nil for arm64 without a platform.
C29_ConfiguredInvariants ==
    /\ Configured =>
        /\ impConfig.Format \in {"ova", "raw", "vmdk", "vhd", "vhdx"}
        /\ impGiven.Format = "" => impConfig.Format = "ova"
        /\ impGiven.Format # "" => impConfig.Format = impGiven.Format
        /\ impConfig.Architecture # ""
        /\ impGiven.Architecture = "" => impConfig.Architecture = "x86_64"
        /\ impGiven.Architecture # "" => impConfig.Architecture = impGiven.Architecture
        /\ impConfig.BootMode \in {"legacy-bios", "uefi"}
        /\ impGiven.BootMode = "" =>
              impConfig.BootMode = IF impConfig.Architecture = "arm64"
                                   THEN "uefi" ELSE "legacy-bios"
        /\ impGiven.BootMode # "" => impConfig.BootMode = impGiven.BootMode
        /\ impConfig.Architecture = "arm64" => impConfig.BootMode = "uefi"
        /\ impConfig.BootMode = "uefi" => impConfig.Platform \in {"linux", "windows"}
        /\ impConfig.Platform \in {"", "linux", "windows"}
        /\ impConfig.Platform = impGiven.Platform
    /\ (impPc = "done" /\ impGiven.Architecture = "arm64" /\ impGiven.Platform = "") =>
        impResult.kind # "nil"

\* Configure accepted an arm64 import on linux and chose ova and uefi itself
C29_Witness ==
    /\ Configured
    /\ impGiven.Format = "" /\ impConfig.Format = "ova"
    /\ impGiven.BootMode = "" /\ impConfig.BootMode = "uefi"
    /\ impConfig.Architecture = "arm64"
    /\ impConfig.Platform = "linux"

====
